---------------------------- MODULE Spec2Model ----------------------------
(***************************************************************************)
(* Crawl-and-persist pipeline of ScraperReklama5:                          *)
(*   storage/sqlite_store.py  - upsert with merge-by-presence, content     *)
(*                              hash and field-level change log           *)
(*   scraperReklama5.py       - page fetch with retry/backoff, change      *)
(*                              classifier, detail enrichment with a       *)
(*                              worker pool and an admission semaphore,    *)
(*                              and the page loop of the crawl run         *)
(*                                                                         *)
(* Python values are modelled as triples <<kind, core, pad>>:              *)
(*   None            <<"null", "", 0>>                                     *)
(*   int n           <<"int", n, 0>>                                       *)
(*   bool b          <<"bool", 0 or 1, 0>>                                 *)
(*   str s           <<"str", stripped text, 1 if s carries surrounding    *)
(*                    whitespace else 0>>   ("" and "  " have core "")     *)
(*   ISO date text   <<"date", minutes, pad>>: a str that                  *)
(*                    datetime.fromisoformat parses to that minute         *)
(*   sha256 digest   <<"hash", canonical payload, 0>>  (a str; the digest  *)
(*                    is taken to be injective on the canonical payload)   *)
(*   JSON text       <<"json", value, 0>>                                  *)
(*   timestamp text  <<"time", t, 0>>   (now.isoformat, second t)          *)
(* Tracked values carry the storage class of their column, as              *)
(* parse_listing and normalize_detail_values produce them, so a value      *)
(* read back from SQLite equals the value written.                         *)
(***************************************************************************)
EXTENDS Integers, Sequences, FiniteSets, TLC

VARIABLES
    \* ---- persistence layer (sqlite_store) ----
    rows,        \* table listings: a set of rows (functions column -> value)
    changes,     \* table listing_changes: the sequence of Change Entries
    writes,      \* number of upsert_many calls made so far
    lastCall,    \* arguments of the latest upsert_many call
    prevCall,    \* arguments of the call before it
    preRows,     \* table listings as it was before the latest call
    preLen,      \* length of listing_changes before the latest call
    \* ---- change classifier (classify_listing_status) ----
    clsFields,   \* the fieldnames the store was written with
    clsDb,       \* whether a db_connection is handed to the classifier
    clsListings, \* the listings handed to the classifier
    clsResult,   \* per listing: _status and _status_changes
    clsPc,       \* "store", "classify" or "done"
    \* ---- fetch with retry (fetch_listing_page, fetch_detail_attributes) ----
    fKind,       \* "page" or "detail"
    fUrl,        \* the detail url (fetch_detail_attributes), None when absent
    fRetries,    \* parameter retries
    fBackoff,    \* parameter backoff_seconds
    fAttempt,    \* loop variable attempt
    fOutcomes,   \* outcome of every urlopen call made so far
    fSleeps,     \* argument of every time.sleep call made so far
    fResult,     \* the value returned
    fPc,         \* "attempt", "returned" or "raised"
    \* ---- detail enrichment (enrich_listings_with_details) ----
    eListings,   \* target_listings, as the caller sees them
    eWorkers,    \* worker_count of the ThreadPoolExecutor
    eSemaphore,  \* rate_limit_semaphore: its counter, or "none"
    eSubmitted,  \* number of items submitted to the executor so far
    eTask,       \* per item: "new", "queued", "running", "fetching", "done"
    eFuture,     \* per item: what its future holds once the task is done
    eFetched,    \* per item: what fetch_detail_attributes returned for its link
    eResults,    \* results: idx -> details, filled in completion order
    eOrder,      \* the order in which as_completed yielded the items
    eProgress,   \* number of progress_callback calls
    ePc,         \* main thread: "submit", "collect", "merge" or "done"
    eRate,       \* the rate_limit_permits argument of the call
    eInput,      \* the listings as they were when the call was made
    \* ---- crawl run (run_scraper_flow_from_config) ----
    rCfg,        \* the normalised settings of the run
    rPage,       \* page: the loop variable of range(1, 200)
    rPc,         \* "fetch", "classify", "enrich", "persist", "closed",
                 \* "returned" or "raised"
    rStop,       \* why the page loop ended, "" while it runs
    rListings,   \* listings: what parse_listing returned for the page
    rEligible,   \* eligible_listings, after filter, deduplication and cap
    rStatus,     \* per eligible listing: its _status and _status_changes
    rRemaining,  \* remaining_limit
    rSeen,       \* seen_ids
    rCount,      \* the counters of the summary
    rClassified, \* the ids handed to classify_listing_status, in order
    rPersisted,  \* the ids handed to the store or the CSV file, in order
    rOffered,    \* the ids of the listings the duplicate check saw, in order
    rSummary,    \* the summary the run printed, << >> while none was printed
    rFetchedAt   \* the positions of eligible_listings whose detail page the
                 \* page's enrichment fetched

storeVars == <<rows, changes, writes, lastCall, prevCall, preRows, preLen>>
clsVars == <<clsFields, clsDb, clsListings, clsResult, clsPc>>

fetchVars == <<fKind, fUrl, fRetries, fBackoff, fAttempt, fOutcomes, fSleeps,
               fResult, fPc>>

enrichVars == <<eListings, eWorkers, eSemaphore, eSubmitted, eTask, eFuture,
                eFetched, eResults, eOrder, eProgress, ePc, eRate, eInput>>

runVars == <<rCfg, rPage, rPc, rStop, rListings, rEligible, rStatus,
             rRemaining, rSeen, rCount, rClassified, rPersisted, rOffered,
             rSummary, rFetchedAt>>

vars == <<storeVars, clsVars, fetchVars, enrichVars, runVars>>

---------------------------------------------------------------------------
(* A component that takes no part in a specification stays as constructed *)

ClsIdle ==
    /\ clsFields = << >>
    /\ clsDb = FALSE
    /\ clsListings = << >>
    /\ clsResult = << >>
    /\ clsPc = "idle"

FetchIdle ==
    /\ fKind = "none"
    /\ fUrl = <<"null", "", 0>>
    /\ fRetries = 0
    /\ fBackoff = 0
    /\ fAttempt = 0
    /\ fOutcomes = << >>
    /\ fSleeps = << >>
    /\ fResult = <<"null", "", 0>>
    /\ fPc = "idle"

EnrichIdle ==
    /\ eListings = << >>
    /\ eWorkers = 0
    /\ eSemaphore = [limited |-> FALSE, value |-> 0]
    /\ eSubmitted = 0
    /\ eTask = << >>
    /\ eFuture = << >>
    /\ eFetched = << >>
    /\ eResults = << >>
    /\ eOrder = << >>
    /\ eProgress = 0
    /\ ePc = "idle"
    /\ eRate = <<"null", "", 0>>
    /\ eInput = << >>

RunIdle ==
    /\ rCfg = << >>
    /\ rPage = 0
    /\ rPc = "idle"
    /\ rStop = ""
    /\ rListings = << >>
    /\ rEligible = << >>
    /\ rStatus = << >>
    /\ rRemaining = <<"null", "", 0>>
    /\ rSeen = {}
    /\ rCount = << >>
    /\ rClassified = << >>
    /\ rPersisted = << >>
    /\ rOffered = << >>
    /\ rSummary = << >>
    /\ rFetchedAt = {}

---------------------------------------------------------------------------
(* Bounds of the model *)

MaxWrites == 3
MaxTime == 2
MaxRetries == 3
MaxBackoff == 3
MaxItems == 3
MaxWorkers == 3
MaxPermits == 3
MaxPages == 2
MaxPageLen == 2
MaxLimit == 2
MaxBatchCalls == 2
MaxBatchLen == 2
MaxConfig == 7

---------------------------------------------------------------------------
(* Python values *)

Null == <<"null", "", 0>>
IntV(n) == <<"int", n, 0>>
BoolV(b) == <<"bool", IF b THEN 1 ELSE 0, 0>>
StrV(s) == <<"str", s, 0>>
PaddedV(s) == <<"str", s, 1>>
DateV(m) == <<"date", m, 0>>
TimeV(t) == <<"time", t, 0>>

IsStr(v) == v[1] \in {"str", "date", "hash", "json", "time"}

\* value in (None, "")
IsNoneOrEmpty(v) == v = Null \/ v = StrV("")

\* str.strip()
Strip(v) == <<v[1], v[2], 0>>

\* dict.get(name)
Get(d, name) == IF name \in DOMAIN d THEN d[name] ELSE Null

Range(s) == {s[i] : i \in 1..Len(s)}

---------------------------------------------------------------------------
(* Field lists of scraperReklama5.py *)

CSV_FIELDNAMES ==
    << "id", "link", "make", "model", "year", "price", "km", "kw", "ps",
       "fuel", "gearbox", "body", "color", "registration", "reg_until",
       "emission_class", "date", "city", "promoted" >>

DB_FIELDNAMES == SelectSeq(CSV_FIELDNAMES, LAMBDA name : name # "promoted")

DETAIL_ONLY_FIELDS ==
    << "fuel", "gearbox", "body", "color", "registration", "reg_until",
       "emission_class" >>

OVERVIEW_COMPARISON_FIELDS == << "link", "price", "km", "date" >>

StatusComparisonWithoutPrice == << "link", "km", "date" >>

STATUS_COMPARISON_FIELDS == OVERVIEW_COMPARISON_FIELDS

---------------------------------------------------------------------------
(* storage/sqlite_store.py *)

_normalize_value(value) ==
    IF value[1] = "bool" THEN IntV(value[2]) ELSE value

_calculate_listing_hash(values) == <<"hash", values, 0>>

calculate_listing_hash(values) == _calculate_listing_hash(values)

_ensure_listing_id_fixed(values) ==
    LET listing_id == Get(values, "id")
    IN  IF listing_id = Null \/ listing_id = StrV("")
        THEN StrV("unknown")
        ELSE listing_id

_ensure_listing_id(values) ==
    LET listing_id == Get(values, "id")
    IN  IF listing_id = Null \/ listing_id = StrV("")
        THEN _calculate_listing_hash(values)
        ELSE listing_id

_clean_field_value(value) ==
    LET v == _normalize_value(value)
    IN  IF IsStr(v)
        THEN IF Strip(v) = StrV("") THEN Null ELSE Strip(v)
        ELSE v

_serialize_change_value(value) ==
    IF value = Null THEN Null ELSE <<"json", value, 0>>

\* SELECT * FROM listings WHERE id = ?
ExistingRowsNone(table, listing_id) == {}

ExistingRows(table, listing_id) == {r \in table : r["id"] = listing_id}

\* columns = list(fieldnames) + ["hash", "created_at", "updated_at", "last_seen"]
Columns(fieldnames) ==
    fieldnames \o << "hash", "created_at", "updated_at", "last_seen" >>

\* merged[name]: an incoming None keeps the stored value
MergedNoPresence(normalized, existing, fieldnames) ==
    [name \in Range(fieldnames) |-> normalized[name]]

MergedDetailsOverwritten(normalized, existing, fieldnames) ==
    [name \in Range(fieldnames) |->
        IF normalized[name] = Null /\ existing # Null
           /\ name \notin Range(DETAIL_ONLY_FIELDS)
        THEN Get(existing, name)
        ELSE normalized[name]]

Merged(normalized, existing, fieldnames) ==
    [name \in Range(fieldnames) |->
        IF normalized[name] = Null /\ existing # Null
        THEN Get(existing, name)
        ELSE normalized[name]]

\* the fields for which prepare_row appends a Change Entry, in fieldnames
\* order: old_value = existing.get(name), new_value = merged.get(name)
ChangedFieldsVsIncoming(existing, normalized, merged, fieldnames) ==
    SelectSeq(fieldnames,
              LAMBDA name : name # "id" /\ Get(existing, name) # normalized[name])

ChangedFields(existing, normalized, merged, fieldnames) ==
    SelectSeq(fieldnames,
              LAMBDA name : name # "id" /\ Get(existing, name) # merged[name])

\* the Change Entries of one item: (listing_id, name, old, new, name, now_text)
ChangeEntriesFirstOnly(listing_id, existing, merged, changed, now_text) ==
    [i \in 1..(IF Len(changed) > 0 THEN 1 ELSE 0) |->
        [listing_id |-> listing_id,
         field |-> changed[i],
         old_value |-> _serialize_change_value(Get(existing, changed[i])),
         new_value |-> _serialize_change_value(merged[changed[i]]),
         change_type |-> changed[i],
         changed_at |-> now_text]]

ChangeEntries(listing_id, existing, merged, changed, now_text) ==
    [i \in 1..Len(changed) |->
        [listing_id |-> listing_id,
         field |-> changed[i],
         old_value |-> _serialize_change_value(Get(existing, changed[i])),
         new_value |-> _serialize_change_value(merged[changed[i]]),
         change_type |-> changed[i],
         changed_at |-> now_text]]

UpdatedAtAlwaysNow(existing, data_changed, now_text) == now_text

UpdatedAtUnsetOnInsert(existing, data_changed, now_text) ==
    IF existing # Null
    THEN IF data_changed THEN now_text ELSE Get(existing, "updated_at")
    ELSE TimeV(0)

UpdatedAt(existing, data_changed, now_text) ==
    IF existing # Null
    THEN IF data_changed THEN now_text ELSE Get(existing, "updated_at")
    ELSE now_text

merged_hash_payload_incoming(normalized, merged, fieldnames) ==
    [name \in Range(fieldnames) |-> normalized[name]]

\* merged_hash_payload = {name: merged.get(name) for name in fieldnames}
merged_hash_payload(normalized, merged, fieldnames) ==
    [name \in Range(fieldnames) |-> merged[name]]

\* upsert_many.prepare_row: the row values and the Change Entries of one item
prepare_row(table, item, fieldnames, now_text) ==
    LET cleaned == [name \in Range(fieldnames) \cup {"id"} |->
                        _clean_field_value(Get(item, name))]
        normalized == [cleaned EXCEPT !["id"] = _ensure_listing_id(
                            [name \in Range(fieldnames) |-> cleaned[name]])]
        listing_id == normalized["id"]
        found == ExistingRows(table, listing_id)
        existing == IF found = {} THEN Null ELSE CHOOSE r \in found : TRUE
        merged == Merged(normalized, existing, fieldnames)
        changed == IF existing = Null THEN << >>
                   ELSE ChangedFields(existing, normalized, merged, fieldnames)
        data_changed == existing = Null \/ Len(changed) > 0
        row == [col \in Range(Columns(fieldnames)) |->
                  CASE col = "hash" ->
                         _calculate_listing_hash(
                             merged_hash_payload(normalized, merged, fieldnames))
                    [] col = "created_at" ->
                         IF existing # Null THEN Get(existing, "created_at")
                         ELSE now_text
                    [] col = "updated_at" ->
                         UpdatedAt(existing, data_changed, now_text)
                    [] col = "last_seen" -> now_text
                    [] OTHER -> merged[col]]
        entries == ChangeEntries(listing_id, existing, merged, changed, now_text)
    IN  [row |-> row, existing |-> existing, changes |-> entries]

WriteRowAlone(table, row) == {row}

\* INSERT INTO listings ... ON CONFLICT(id) DO UPDATE SET every column but
\* id and created_at
WriteRow(table, row) ==
    LET found == ExistingRows(table, row["id"])
    IN  IF found = {} THEN table \cup {row}
        ELSE LET old == CHOOSE r \in found : TRUE
             IN  (table \ {old}) \cup
                 {[col \in DOMAIN row |->
                     IF col \in {"id", "created_at"} THEN old[col] ELSE row[col]]}

upsert_loop_snapshot(table, log, listings, k, fieldnames, now_text) ==
    LET prepared == [j \in k..Len(listings) |->
                        prepare_row(table, listings[j], fieldnames, now_text)]
        written[j \in (k - 1)..Len(listings)] ==
            IF j = k - 1 THEN [rows |-> table, changes |-> log]
            ELSE [rows |-> WriteRow(written[j - 1].rows, prepared[j].row),
                  changes |-> written[j - 1].changes \o prepared[j].changes]
    IN  written[Len(listings)]

\* the loop of upsert_many over listings[k..], inside one transaction
RECURSIVE upsert_loop(_, _, _, _, _, _)
upsert_loop(table, log, listings, k, fieldnames, now_text) ==
    IF k > Len(listings) THEN [rows |-> table, changes |-> log]
    ELSE LET p == prepare_row(table, listings[k], fieldnames, now_text)
         IN  upsert_loop(WriteRow(table, p.row), log \o p.changes,
                         listings, k + 1, fieldnames, now_text)

upsert_many(table, log, listings, fieldnames, timestamp) ==
    IF Len(listings) = 0 THEN [rows |-> table, changes |-> log, count |-> 0]
    ELSE LET r == upsert_loop(table, log, listings, 1, fieldnames, TimeV(timestamp))
         IN  [rows |-> r.rows, changes |-> r.changes, count |-> Len(listings)]

upsert_listing(table, log, listing, fieldnames, timestamp) ==
    upsert_many(table, log, << listing >>, fieldnames, timestamp)

---------------------------------------------------------------------------
(* scraperReklama5.py: change classifier *)

STATUS_NEW == "new"
STATUS_CHANGED == "changed"
STATUS_UNCHANGED == "unchanged"

\* timedelta(hours=1), in minutes
DATE_COMPARISON_TOLERANCE == 60

Abs(n) == IF n < 0 THEN -n ELSE n

_normalize_listing_payload_for_hash(listing) ==
    [name \in Range(CSV_FIELDNAMES) |->
        LET v == _normalize_value(Get(listing, name))
        IN  IF IsStr(v)
            THEN IF Strip(v) = StrV("") THEN Null ELSE Strip(v)
            ELSE v]

\* datetime.fromisoformat(str(value)), or None
_parse_iso_datetime(value) ==
    IF IsNoneOrEmpty(value) THEN [ok |-> FALSE, t |-> 0]
    ELSE IF value[1] = "date" /\ value[3] = 0 THEN [ok |-> TRUE, t |-> value[2]]
    ELSE [ok |-> FALSE, t |-> 0]

_dates_equivalent_exact(old_value, new_value) == old_value = new_value

_dates_equivalent(old_value, new_value) ==
    LET old_dt == _parse_iso_datetime(old_value)
        new_dt == _parse_iso_datetime(new_value)
    IN  IF old_dt.ok /\ new_dt.ok
        THEN Abs(new_dt.t - old_dt.t) <= DATE_COMPARISON_TOLERANCE
        ELSE old_value = new_value

fallback_fields ==
    DETAIL_ONLY_FIELDS \o << "km", "kw", "ps", "year", "price", "city", "link" >>

\* normalized_payload after the fallback loop over fallback_fields
WithFallback(normalized_payload, existing) ==
    [name \in DOMAIN normalized_payload |->
        IF /\ name \in Range(fallback_fields)
           /\ IsNoneOrEmpty(normalized_payload[name])
           /\ ~IsNoneOrEmpty(Get(existing, name))
        THEN Get(existing, name)
        ELSE normalized_payload[name]]

DiffFieldsWithoutKm(comparison_fields, payload, existing) ==
    {field \in Range(comparison_fields) \ {"km"} :
        /\ ~IsNoneOrEmpty(payload[field])
        /\ ~(IF field = "date"
             THEN _dates_equivalent(Get(existing, field), payload[field])
             ELSE Get(existing, field) = payload[field])}

\* the fields of comparison_fields for which changes[field] is set
DiffFields(comparison_fields, payload, existing) ==
    {field \in Range(comparison_fields) :
        /\ ~IsNoneOrEmpty(payload[field])
        /\ ~(IF field = "date"
             THEN _dates_equivalent(Get(existing, field), payload[field])
             ELSE Get(existing, field) = payload[field])}

ClassifyFoundHashAlone(listing, existing) ==
    LET payload == WithFallback(_normalize_listing_payload_for_hash(listing), existing)
        listing_hash == calculate_listing_hash(payload)
        existing_hash == Get(existing, "hash")
        diff == DiffFields(STATUS_COMPARISON_FIELDS, payload, existing)
        keys == IF existing_hash # listing_hash
                THEN diff \cup {"hash"} ELSE diff
        changes_ == [field \in keys |->
                        IF field = "hash"
                        THEN [old |-> existing_hash, new |-> listing_hash]
                        ELSE [old |-> Get(existing, field), new |-> payload[field]]]
    IN  [status |-> IF keys # {} THEN STATUS_CHANGED ELSE STATUS_UNCHANGED,
         changes |-> changes_]

\* classification of a listing against the row found for its id
ClassifyFound(listing, existing) ==
    LET payload == WithFallback(_normalize_listing_payload_for_hash(listing), existing)
        listing_hash == calculate_listing_hash(payload)
        existing_hash == Get(existing, "hash")
        diff == DiffFields(STATUS_COMPARISON_FIELDS, payload, existing)
        keys == IF diff # {} /\ existing_hash # listing_hash
                THEN diff \cup {"hash"} ELSE diff
        changes_ == [field \in keys |->
                        IF field = "hash"
                        THEN [old |-> existing_hash, new |-> listing_hash]
                        ELSE [old |-> Get(existing, field), new |-> payload[field]]]
    IN  [status |-> IF keys # {} THEN STATUS_CHANGED ELSE STATUS_UNCHANGED,
         changes |-> changes_]

FetchAnyRow(table, listing_id) == table

\* sqlite_store.fetch_listings_by_ids(...).get(normalized_id)
fetch_listing_by_id(table, listing_id) ==
    IF IsNoneOrEmpty(listing_id) THEN {} ELSE ExistingRows(table, listing_id)

\* the loop body of classify_listing_status for one listing
ClassifyOne(listing, db_connection, table) ==
    LET raw_id == Get(listing, "id")
        normalized_id == IF IsNoneOrEmpty(raw_id) THEN Null ELSE raw_id
        use_database == db_connection /\ normalized_id # Null
        found == IF use_database THEN fetch_listing_by_id(table, normalized_id) ELSE {}
    IN  IF found = {}
        THEN [status |-> STATUS_NEW, changes |-> << >>]
        ELSE ClassifyFound(listing, CHOOSE r \in found : TRUE)

\* listing["_status"], listing["_status_changes"] for every listing
classify_listing_status(listings, db_connection, table) ==
    [i \in 1..Len(listings) |-> ClassifyOne(listings[i], db_connection, table)]

---------------------------------------------------------------------------
(* Listings handed to the store: tests/test_sqlite_store.py base_listing   *)
(* with overrides of the price and the fuel, and without identifier         *)

base_listing ==
    [id |-> StrV("abc"), link |-> StrV("https://example.com/abc"),
     make |-> StrV("VW"), model |-> StrV("Golf"), year |-> IntV(2019),
     price |-> IntV(15000), km |-> IntV(120000), kw |-> IntV(110),
     ps |-> IntV(150), fuel |-> StrV("Diesel"), gearbox |-> StrV("Manual"),
     body |-> StrV("Hatch"), color |-> StrV("Blue"),
     registration |-> StrV("SK"), reg_until |-> StrV("2024"),
     emission_class |-> StrV("EU6"), date |-> DateV(0),
     city |-> StrV("Skopje"), promoted |-> BoolV(FALSE)]

StorePrices == {IntV(15000), IntV(15500), Null}
StoreFuels == {StrV("Diesel"), PaddedV("")}

StoreItems ==
    {[base_listing EXCEPT !["price"] = p, !["fuel"] = f] :
        p \in StorePrices, f \in StoreFuels}
    \cup {[base_listing EXCEPT !["id"] = Null, !["price"] = p] :
        p \in {IntV(15000), Null}}
    \cup {[base_listing EXCEPT !["id"] = StrV("")]}

NoCall == [listings |-> << >>, timestamp |-> 0, failed_at |-> 0]

StoreInit ==
    /\ rows = {}
    /\ changes = << >>
    /\ writes = 0
    /\ lastCall = NoCall
    /\ prevCall = NoCall
    /\ preRows = {}
    /\ preLen = 0

\* one call upsert_many(conn, listings, fieldnames, timestamp=timestamp)
StoreCall(listings, fieldnames, timestamp) ==
    /\ LET r == upsert_many(rows, changes, listings, fieldnames, timestamp)
       IN  /\ rows' = r.rows
           /\ changes' = r.changes
    /\ writes' = writes + 1
    /\ lastCall' = [listings |-> listings, timestamp |-> timestamp,
                    failed_at |-> 0]
    /\ prevCall' = lastCall
    /\ preRows' = rows
    /\ preLen' = Len(changes)

\* upsert_listing(conn, listing, DB_FIELDNAMES, timestamp=timestamp)
Upsert(listing, timestamp) ==
    /\ writes < MaxWrites
    /\ StoreCall(<< listing >>, DB_FIELDNAMES, timestamp)
    /\ UNCHANGED <<clsVars, fetchVars, enrichVars, runVars>>

StoreNext ==
    \E listing \in StoreItems, timestamp \in 1..MaxTime : Upsert(listing, timestamp)

StoreSpecInit ==
    /\ StoreInit
    /\ ClsIdle
    /\ FetchIdle
    /\ EnrichIdle
    /\ RunIdle

SpecStore == StoreSpecInit /\ [][StoreNext]_vars

\* upsert_listing(conn, listing, DB_FIELDNAMES, timestamp=timestamp) by a
\* caller whose clock does not go back: datetime.utcnow() of successive calls
UpsertInOrder(listing, timestamp) ==
    /\ timestamp >= lastCall.timestamp
    /\ Upsert(listing, timestamp)

StoreOrderedNext ==
    \E listing \in StoreItems, timestamp \in 1..MaxTime :
        UpsertInOrder(listing, timestamp)

SpecStoreOrdered == StoreSpecInit /\ [][StoreOrderedNext]_vars

---------------------------------------------------------------------------
(* Batches handed to upsert_many, and a persistence error inside a batch:   *)
(* conn.execute raises at the k-th listing, after the rows and Change       *)
(* Entries of the listings before it were written inside the transaction.   *)
(* The k-th call is made at second k; the exception ends the session.       *)

BatchItems ==
    {base_listing,
     [base_listing EXCEPT !["price"] = IntV(15500)],
     [base_listing EXCEPT !["id"] = Null]}

Batches == UNION {[1..n -> BatchItems] : n \in 1..MaxBatchLen}

RollbackKeepsWritten(committed, uncommitted) == uncommitted

\* with conn: ... an exception rolls the transaction back
Rollback(committed, uncommitted) == committed

\* upsert_many raises at listings[k]: what the database holds afterwards
upsert_many_fails(table, log, listings, k, fieldnames, timestamp) ==
    LET written == upsert_loop(table, log, SubSeq(listings, 1, k - 1), 1,
                               fieldnames, TimeV(timestamp))
    IN  Rollback([rows |-> table, changes |-> log], written)

BatchInit ==
    /\ StoreInit
    /\ ClsIdle
    /\ FetchIdle
    /\ EnrichIdle
    /\ RunIdle

\* upsert_many(conn, listings, DB_FIELDNAMES, timestamp=timestamp) returns
UpsertMany(listings, timestamp) ==
    /\ writes < MaxBatchCalls
    /\ lastCall.failed_at = 0
    /\ StoreCall(listings, DB_FIELDNAMES, timestamp)
    /\ UNCHANGED <<clsVars, fetchVars, enrichVars, runVars>>

\* upsert_many(conn, listings, DB_FIELDNAMES, timestamp=timestamp) raises
UpsertManyFails(listings, timestamp, k) ==
    /\ writes < MaxBatchCalls
    /\ lastCall.failed_at = 0
    /\ LET r == upsert_many_fails(rows, changes, listings, k, DB_FIELDNAMES,
                                  timestamp)
       IN  /\ rows' = r.rows
           /\ changes' = r.changes
    /\ writes' = writes + 1
    /\ lastCall' = [listings |-> listings, timestamp |-> timestamp,
                    failed_at |-> k]
    /\ prevCall' = lastCall
    /\ preRows' = rows
    /\ preLen' = Len(changes)
    /\ UNCHANGED <<clsVars, fetchVars, enrichVars, runVars>>

BatchNext ==
    \/ \E listings \in Batches : UpsertMany(listings, writes + 1)
    \/ \E listings \in Batches :
          \E k \in 1..Len(listings) : UpsertManyFails(listings, writes + 1, k)

SpecBatch == BatchInit /\ [][BatchNext]_vars

---------------------------------------------------------------------------
(* Classifier runs: a listing is stored, then a follow-up observation of   *)
(* it is classified (tests/test_classify_listing_status.py build_listing)  *)

build_listing ==
    [id |-> StrV("listing-1"),
     link |-> StrV("https://www.reklama5.mk/AdDetails?ad=listing-1"),
     make |-> StrV("VW"), model |-> StrV("Golf"), year |-> IntV(2018),
     price |-> IntV(9500), km |-> IntV(120000), kw |-> IntV(85),
     ps |-> IntV(115), fuel |-> Null, gearbox |-> Null, body |-> Null,
     color |-> Null, registration |-> Null, reg_until |-> Null,
     emission_class |-> Null, date |-> DateV(720), city |-> StrV("Skopje"),
     promoted |-> BoolV(FALSE)]

\* dates: 12:00, 12:30, 13:00, 13:01, the next day 13:00, unparsed text, none
ClsDates ==
    {DateV(720), DateV(750), DateV(780), DateV(781), DateV(2220),
     StrV("1 jan"), Null}

ClsStoredItems ==
    {[build_listing EXCEPT !["price"] = p, !["date"] = d, !["fuel"] = f] :
        p \in {IntV(9500), Null},
        d \in {DateV(720), StrV("1 jan")},
        f \in {StrV("Diesel"), Null}}

ClsFollowups ==
    {[build_listing EXCEPT !["id"] = i, !["link"] = l, !["price"] = p,
                           !["km"] = k, !["date"] = d, !["city"] = c] :
        i \in {StrV("listing-1"), StrV("listing-2"), Null},
        l \in {build_listing["link"], Null},
        p \in {IntV(9500), IntV(9900), Null},
        k \in {IntV(120000), IntV(121000), Null},
        d \in ClsDates,
        c \in {StrV("Skopje"), StrV("Bitola")}}

\* init_schema(conn, fieldnames): the tests create the tables with
\* CSV_FIELDNAMES, the crawl run with DB_FIELDNAMES
ClsInit ==
    /\ StoreInit
    /\ clsFields \in {CSV_FIELDNAMES, DB_FIELDNAMES}
    /\ clsDb = TRUE
    /\ clsListings = << >>
    /\ clsResult = << >>
    /\ clsPc = "store"
    /\ FetchIdle
    /\ EnrichIdle
    /\ RunIdle

\* sqlite_store.upsert_many(conn, [stored_listing], fieldnames)
ClsStore(stored) ==
    /\ clsPc = "store"
    /\ StoreCall(<< stored >>, clsFields, 1)
    /\ clsPc' = "classify"
    /\ UNCHANGED <<clsFields, clsDb, clsListings, clsResult, fetchVars, enrichVars,
                   runVars>>

\* classify_listing_status([followup_listing], conn)
Classify(followup, db_connection) ==
    /\ clsPc = "classify"
    /\ clsDb' = db_connection
    /\ clsListings' = << followup >>
    /\ clsResult' = classify_listing_status(<< followup >>, db_connection, rows)
    /\ clsPc' = "done"
    /\ UNCHANGED <<storeVars, clsFields, fetchVars, enrichVars, runVars>>

\* sqlite_store.upsert_many(conn, [followup_listing], fieldnames) after the
\* classification
ClsPersist ==
    /\ clsPc = "done"
    /\ clsDb
    /\ StoreCall(clsListings, clsFields, 2)
    /\ clsPc' = "persisted"
    /\ UNCHANGED <<clsFields, clsDb, clsListings, clsResult, fetchVars, enrichVars,
                   runVars>>

ClsNext ==
    \/ \E stored \in ClsStoredItems : ClsStore(stored)
    \/ \E followup \in ClsFollowups, db_connection \in BOOLEAN :
          Classify(followup, db_connection)
    \/ ClsPersist

SpecClassify == ClsInit /\ [][ClsNext]_vars

---------------------------------------------------------------------------
(* scraperReklama5.py: fetch_listing_page and fetch_detail_attributes, one  *)
(* step per iteration of the retry loop                                    *)

\* what urlopen(...).read() can do: deliver the page, raise URLError or
\* socket.timeout (caught), or raise anything else (not caught)
UrlopenOutcomes == {"ok", "transient", "other"}

PageContents == {StrV("<html>a</html>"), StrV("<html>b</html>")}

\* what normalize_detail_values returns for a detail page
DetailAttributes ==
    {[fuel |-> StrV("Diesel"), km |-> IntV(125000)],
     [fuel |-> StrV(""), color |-> StrV("Blue"), km |-> Null]}

DetailUrls == {StrV("https://www.reklama5.mk/AdDetails?ad=1"), Null}

EmptyDict == << >>

\* the value a fetch returns once every attempt has failed
FailureValue(kind) == IF kind = "page" THEN Null ELSE EmptyDict

\* time.sleep(backoff_seconds * attempt)
BackoffDelayConstant(backoff_seconds, attempt) == backoff_seconds

BackoffDelay(backoff_seconds, attempt) == backoff_seconds * attempt

FetchInit ==
    /\ StoreInit
    /\ ClsIdle
    /\ EnrichIdle
    /\ RunIdle
    /\ fKind \in {"page", "detail"}
    /\ fUrl \in IF fKind = "detail" THEN DetailUrls
               ELSE {StrV("https://www.reklama5.mk/Search?page=1")}
    /\ fRetries \in 1..MaxRetries
    /\ fBackoff \in 1..MaxBackoff
    /\ fAttempt = 1
    /\ fOutcomes = << >>
    /\ fSleeps = << >>
    /\ fResult = Null
    /\ fPc = "attempt"

\* fetch_detail_attributes: if not url: return {}
FetchNoUrl ==
    /\ fPc = "attempt"
    /\ fKind = "detail"
    /\ IsNoneOrEmpty(fUrl)
    /\ fResult' = EmptyDict
    /\ fPc' = "returned"
    /\ UNCHANGED <<fKind, fUrl, fRetries, fBackoff, fAttempt, fOutcomes, fSleeps>>
    /\ UNCHANGED <<storeVars, clsVars, enrichVars, runVars>>

FetchHasUrl == fKind = "page" \/ ~IsNoneOrEmpty(fUrl)

\* the attempt succeeds: return the decoded page, or break and return the
\* parsed attributes
FetchAttemptOk(value) ==
    /\ fPc = "attempt"
    /\ FetchHasUrl
    /\ fAttempt <= fRetries
    /\ fOutcomes' = Append(fOutcomes, "ok")
    /\ fResult' = value
    /\ fPc' = "returned"
    /\ UNCHANGED <<fKind, fUrl, fRetries, fBackoff, fAttempt, fSleeps>>
    /\ UNCHANGED <<storeVars, clsVars, enrichVars, runVars>>

\* except (URLError, socket.timeout): give up after the last attempt, else
\* sleep and try again
FetchAttemptTransient ==
    /\ fPc = "attempt"
    /\ FetchHasUrl
    /\ fAttempt <= fRetries
    /\ fOutcomes' = Append(fOutcomes, "transient")
    /\ IF fAttempt >= fRetries
       THEN /\ fResult' = FailureValue(fKind)
            /\ fPc' = "returned"
            /\ UNCHANGED <<fAttempt, fSleeps>>
       ELSE /\ fSleeps' = Append(fSleeps, BackoffDelay(fBackoff, fAttempt))
            /\ fAttempt' = fAttempt + 1
            /\ UNCHANGED <<fResult, fPc>>
    /\ UNCHANGED <<fKind, fUrl, fRetries, fBackoff>>
    /\ UNCHANGED <<storeVars, clsVars, enrichVars, runVars>>

\* any other exception leaves the function
FetchAttemptRaises ==
    /\ fPc = "attempt"
    /\ FetchHasUrl
    /\ fAttempt <= fRetries
    /\ fOutcomes' = Append(fOutcomes, "other")
    /\ fResult' = "raise"
    /\ fPc' = "raised"
    /\ UNCHANGED <<fKind, fUrl, fRetries, fBackoff, fAttempt, fSleeps>>
    /\ UNCHANGED <<storeVars, clsVars, enrichVars, runVars>>

FetchNext ==
    \/ FetchNoUrl
    \/ \E value \in IF fKind = "page" THEN PageContents ELSE DetailAttributes :
          FetchAttemptOk(value)
    \/ FetchAttemptTransient
    \/ FetchAttemptRaises

SpecFetch == FetchInit /\ [][FetchNext]_vars

---------------------------------------------------------------------------
(* scraperReklama5.py: _detail_worker and enrich_listings_with_details.     *)
(* The executor runs at most worker_count tasks at a time and starts them   *)
(* in submission order; the main thread submits every item, collects the    *)
(* futures as they complete, and merges once the pool has shut down.        *)
(* Items are numbered from 1 (idx + 1).                                     *)

Max(a, b) == IF a >= b THEN a ELSE b
Min(a, b) == IF a <= b THEN a ELSE b

\* total_to_process
TotalToProcess(total_available, max_items) ==
    IF max_items # Null THEN Min(total_available, max_items[2])
    ELSE total_available

\* worker_count = max(1, int(max_workers or 1))
WorkerCount(max_workers) == Max(1, max_workers)

\* permits = max(1, min(int(rate_limit_permits), worker_count))
Permits(rate_limit_permits, worker_count) ==
    Max(1, Min(rate_limit_permits, worker_count))

\* rate_limit_semaphore: threading.Semaphore(permits), or None
NoSemaphore == [limited |-> FALSE, value |-> 0]

NewSemaphore(rate_limit_permits, worker_count) ==
    IF rate_limit_permits # Null
    THEN [limited |-> TRUE,
          value |-> Permits(rate_limit_permits[2], worker_count)]
    ELSE NoSemaphore

CanAcquireAlways(semaphore) == TRUE

\* rate_limit_semaphore.acquire() returns
CanAcquire(semaphore) == ~semaphore.limited \/ semaphore.value > 0

Acquire(semaphore) ==
    IF semaphore.limited THEN [semaphore EXCEPT !.value = @ - 1]
    ELSE semaphore

Release(semaphore) ==
    IF semaphore.limited THEN [semaphore EXCEPT !.value = @ + 1]
    ELSE semaphore

\* a future: not finished, finished with a return value, or with an exception
Pending == [state |-> "pending", value |-> EmptyDict]

Returned(details) == [state |-> "returned", value |-> details]

Raised == [state |-> "raised", value |-> EmptyDict]

\* future.result() or {}, and {} when result() raises
ResultOrEmpty(future) ==
    IF future.state = "raised" THEN EmptyDict ELSE future.value

AsCompletedEndsEarly(collected, futures) == Len(collected) >= 1

\* as_completed(futures) has yielded every future
AsCompletedEnds(collected, futures) == Len(collected) = Len(futures)

ResultSlotByCompletion(idx, position) == position

\* results[idx]
ResultSlot(idx, position) == idx

MergeDetailsOverwrite(listing, details) ==
    [k \in DOMAIN listing \cup DOMAIN details |->
        IF k \in DOMAIN details THEN details[k] ELSE listing[k]]

\* for key, value in details.items(): skip None and "", else listing[key] = value
MergeDetails(listing, details) ==
    LET present == {k \in DOMAIN details :
                        details[k] # Null /\ details[k] # StrV("")}
    IN  [k \in DOMAIN listing \cup present |->
            IF k \in present THEN details[k] ELSE listing[k]]

MergeAllUntilEmpty(listings, target, results) ==
    [i \in 1..Len(listings) |->
        IF /\ i <= target
           /\ \A k \in 1..i : k \in DOMAIN results /\ results[k] # EmptyDict
        THEN MergeDetails(listings[i], results[i])
        ELSE listings[i]]

\* the merge loop over target_listings; items past the target keep their value
MergeAll(listings, target, results) ==
    [i \in 1..Len(listings) |->
        IF i <= target /\ i \in DOMAIN results
        THEN MergeDetails(listings[i], results[i])
        ELSE listings[i]]

EnrichUrl == StrV("https://www.reklama5.mk/AdDetails?ad=1")

EnrichItems ==
    {[id |-> StrV("1"), link |-> EnrichUrl, fuel |-> StrV("Petrol"),
      km |-> IntV(90000)],
     [id |-> StrV("2"), link |-> Null, fuel |-> Null]}

EnrichBatches ==
    UNION {[1..n -> EnrichItems] : n \in 1..MaxItems}

Tasks == DOMAIN eTask

RunningTasks == {i \in Tasks : eTask[i] \in {"running", "fetching"}}

InFlight == {i \in Tasks : eTask[i] = "fetching"}

EnrichInit ==
    /\ StoreInit
    /\ ClsIdle
    /\ FetchIdle
    /\ RunIdle
    /\ eListings \in EnrichBatches
    /\ eInput = eListings
    /\ \E max_items \in {Null, IntV(1)} :
          eTask = [i \in 1..TotalToProcess(Len(eListings), max_items) |-> "new"]
    /\ \E max_workers \in 0..MaxWorkers :
          /\ eWorkers = WorkerCount(max_workers)
          /\ eRate \in {Null} \cup {IntV(n) : n \in 1..MaxPermits}
          /\ eSemaphore = NewSemaphore(eRate, eWorkers)
    /\ eSubmitted = 0
    /\ eFuture = [i \in Tasks |-> Pending]
    /\ eFetched = [i \in Tasks |-> EmptyDict]
    /\ eResults = << >>
    /\ eOrder = << >>
    /\ eProgress = 0
    /\ ePc = "submit"

\* executor.submit(_detail_worker, link, ...); futures[future] = idx
EnrichSubmit ==
    /\ ePc = "submit"
    /\ eSubmitted < Len(eTask)
    /\ eSubmitted' = eSubmitted + 1
    /\ eTask' = [eTask EXCEPT ![eSubmitted + 1] = "queued"]
    /\ ePc' = IF eSubmitted + 1 = Len(eTask) THEN "collect" ELSE "submit"
    /\ UNCHANGED <<eListings, eWorkers, eSemaphore, eFuture, eFetched,
                   eResults, eOrder, eProgress>>
    /\ UNCHANGED <<storeVars, clsVars, fetchVars, runVars, eRate, eInput>>

\* a free worker thread takes the oldest queued work item
WorkerStart(i) ==
    /\ eTask[i] = "queued"
    /\ \A j \in 1..(i - 1) : eTask[j] # "queued"
    /\ Cardinality(RunningTasks) < eWorkers
    /\ eTask' = [eTask EXCEPT ![i] = "running"]
    /\ UNCHANGED <<eListings, eWorkers, eSemaphore, eSubmitted, eFuture,
                   eFetched, eResults, eOrder, eProgress, ePc>>
    /\ UNCHANGED <<storeVars, clsVars, fetchVars, runVars, eRate, eInput>>

\* if not link: return {}
WorkerNoLink(i) ==
    /\ eTask[i] = "running"
    /\ IsNoneOrEmpty(eListings[i].link)
    /\ eTask' = [eTask EXCEPT ![i] = "done"]
    /\ eFuture' = [eFuture EXCEPT ![i] = Returned(EmptyDict)]
    /\ UNCHANGED <<eListings, eWorkers, eSemaphore, eSubmitted, eFetched,
                   eResults, eOrder, eProgress, ePc>>
    /\ UNCHANGED <<storeVars, clsVars, fetchVars, runVars, eRate, eInput>>

\* rate_limit_semaphore.acquire(), then fetch_detail_attributes(link) starts
WorkerAcquire(i) ==
    /\ eTask[i] = "running"
    /\ ~IsNoneOrEmpty(eListings[i].link)
    /\ CanAcquire(eSemaphore)
    /\ eSemaphore' = Acquire(eSemaphore)
    /\ eTask' = [eTask EXCEPT ![i] = "fetching"]
    /\ UNCHANGED <<eListings, eWorkers, eSubmitted, eFuture, eFetched,
                   eResults, eOrder, eProgress, ePc>>
    /\ UNCHANGED <<storeVars, clsVars, fetchVars, runVars, eRate, eInput>>

\* fetch_detail_attributes returns; pacing sleep; return details; release
WorkerFetchReturns(i, details) ==
    /\ eTask[i] = "fetching"
    /\ eFetched' = [eFetched EXCEPT ![i] = details]
    /\ eFuture' = [eFuture EXCEPT ![i] = Returned(details)]
    /\ eSemaphore' = Release(eSemaphore)
    /\ eTask' = [eTask EXCEPT ![i] = "done"]
    /\ UNCHANGED <<eListings, eWorkers, eSubmitted, eResults, eOrder,
                   eProgress, ePc>>
    /\ UNCHANGED <<storeVars, clsVars, fetchVars, runVars, eRate, eInput>>

WorkerFetchRaisesKeepsPermit(i) ==
    /\ eTask[i] = "fetching"
    /\ eFuture' = [eFuture EXCEPT ![i] = Raised]
    /\ eTask' = [eTask EXCEPT ![i] = "done"]
    /\ UNCHANGED <<eListings, eWorkers, eSubmitted, eFetched, eResults,
                   eOrder, eProgress, ePc, eSemaphore>>
    /\ UNCHANGED <<storeVars, clsVars, fetchVars, runVars, eRate, eInput>>

\* fetch_detail_attributes raises; the finally clause releases
WorkerFetchRaises(i) ==
    /\ eTask[i] = "fetching"
    /\ eFuture' = [eFuture EXCEPT ![i] = Raised]
    /\ eSemaphore' = Release(eSemaphore)
    /\ eTask' = [eTask EXCEPT ![i] = "done"]
    /\ UNCHANGED <<eListings, eWorkers, eSubmitted, eFetched, eResults,
                   eOrder, eProgress, ePc>>
    /\ UNCHANGED <<storeVars, clsVars, fetchVars, runVars, eRate, eInput>>

\* for future in as_completed(futures): results[idx] = future.result() or {},
\* {} when it raised; progress_callback()
Collect(i) ==
    /\ ePc = "collect"
    /\ eTask[i] = "done"
    /\ \A k \in 1..Len(eOrder) : eOrder[k] # i
    /\ eResults' = (ResultSlot(i, Len(eOrder) + 1) :> ResultOrEmpty(eFuture[i]))
                        @@ eResults
    /\ eOrder' = Append(eOrder, i)
    /\ eProgress' = eProgress + 1
    /\ ePc' = IF AsCompletedEnds(Append(eOrder, i), eFuture) THEN "merge"
              ELSE "collect"
    /\ UNCHANGED <<eListings, eWorkers, eSemaphore, eSubmitted, eTask,
                   eFuture, eFetched>>
    /\ UNCHANGED <<storeVars, clsVars, fetchVars, runVars, eRate, eInput>>

\* the merge loop after the executor has shut down
EnrichMerge ==
    /\ ePc = "merge"
    /\ eListings' = MergeAll(eListings, Len(eTask), eResults)
    /\ ePc' = "done"
    /\ UNCHANGED <<eWorkers, eSemaphore, eSubmitted, eTask, eFuture,
                   eFetched, eResults, eOrder, eProgress>>
    /\ UNCHANGED <<storeVars, clsVars, fetchVars, runVars, eRate, eInput>>

EnrichNext ==
    \/ EnrichSubmit
    \/ \E i \in Tasks : WorkerStart(i)
    \/ \E i \in Tasks : WorkerNoLink(i)
    \/ \E i \in Tasks : WorkerAcquire(i)
    \/ \E i \in Tasks : \E details \in DetailAttributes \cup {EmptyDict} :
          WorkerFetchReturns(i, details)
    \/ \E i \in Tasks : WorkerFetchRaises(i)
    \/ \E i \in Tasks : Collect(i)
    \/ EnrichMerge

SpecEnrich == EnrichInit /\ [][EnrichNext]_vars

\* the pool's threads are scheduled and every detail fetch ends, by a return
\* or by an exception: a batch that can take a step takes one
SpecEnrichFair == SpecEnrich /\ WF_vars(EnrichNext)

---------------------------------------------------------------------------
(* scraperReklama5.py: run_scraper_flow_from_config, the page loop.          *)
(* One step per phase of a loop iteration: fetch and select, classify,       *)
(* enrich, persist. Dates are minutes; RunNow is datetime.now(). The write   *)
(* timestamp of a page is its page number. The enrichment is taken in its    *)
(* sequential form: each candidate gets the details fetched for its link.    *)
(* The run has the SQLite database as its target.                            *)

\* bool(value)
Truthy(v) == v \notin {Null, StrV(""), IntV(0), BoolV(FALSE)}

RunNow == 4000
MinutesPerDay == 1440

\* parse_mk_date on the date text parse_listing stored
parse_mk_date(date_text) ==
    IF ~Truthy(date_text) THEN [ok |-> FALSE, t |-> 0]
    ELSE IF date_text[1] = "date" THEN [ok |-> TRUE, t |-> date_text[2]]
    ELSE [ok |-> FALSE, t |-> 0]

is_within_days(date_text, days, promoted) ==
    LET dt == parse_mk_date(date_text)
    IN  /\ dt.ok
        /\ ~Truthy(promoted)
        /\ dt.t >= RunNow - days * MinutesPerDay

is_older_than_days_any(date_text, days, promoted) ==
    LET dt == parse_mk_date(date_text)
    IN  /\ dt.ok
        /\ dt.t < RunNow - days * MinutesPerDay

is_older_than_days(date_text, days, promoted) ==
    LET dt == parse_mk_date(date_text)
    IN  /\ dt.ok
        /\ ~Truthy(promoted)
        /\ dt.t < RunNow - days * MinutesPerDay

\* days = days_value if days_value > 0 else 1
NormalizeDays(config_days) == IF config_days > 0 THEN config_days ELSE 1

NormalizeLimitKeepsZero(config_limit) == config_limit

\* limit = limit_candidate if it is a positive int, else None
NormalizeLimit(config_limit) ==
    IF config_limit # Null /\ config_limit[2] > 0 THEN config_limit ELSE Null

\* detail_delay_range: the unset marker, None, or (low, high) in seconds
DETAIL_DELAY_UNSET == <<"unset", 0, 0>>
DelayRange(low, high) == <<"range", low, high>>

ClampWorkersUncapped(detail_worker_count) ==
    Max(1, IF Truthy(detail_worker_count) THEN detail_worker_count[2] ELSE 1)

\* detail_worker_count = max(1, min(5, int(config.detail_worker_count or 1)))
ClampWorkers(detail_worker_count) ==
    Max(1, Min(5, IF Truthy(detail_worker_count)
                  THEN detail_worker_count[2] ELSE 1))

\* detail_rate_limit_permits: None stays None, a value <= 0 becomes None,
\* any other is cut to the worker count
ClampPermits(detail_rate_limit_permits, detail_worker_count) ==
    IF detail_rate_limit_permits = Null THEN Null
    ELSE IF detail_rate_limit_permits[2] <= 0 THEN Null
    ELSE IntV(Min(detail_rate_limit_permits[2], detail_worker_count))

\* detail_delay_range with detail capture enabled
OrderedDelay(detail_delay_range) ==
    IF detail_delay_range = DETAIL_DELAY_UNSET THEN DelayRange(1, 2)
    ELSE IF detail_delay_range # Null /\ detail_delay_range[2] > detail_delay_range[3]
    THEN DelayRange(detail_delay_range[3], detail_delay_range[2])
    ELSE detail_delay_range

\* the settings run_scraper_flow_from_config derives from config before the
\* page loop
NormalizeConfig(config) ==
    LET enable_detail_capture == config.enable_detail_capture
        detail_worker_count == ClampWorkers(config.detail_worker_count)
    IN  [limit |-> NormalizeLimit(config.limit),
         days |-> NormalizeDays(config.days),
         enable_detail_capture |-> enable_detail_capture,
         skip_unchanged |-> config.skip_unchanged,
         detail_worker_count |->
             IF enable_detail_capture THEN detail_worker_count ELSE 1,
         detail_rate_limit_permits |->
             IF enable_detail_capture
             THEN ClampPermits(config.detail_rate_limit_permits,
                               detail_worker_count)
             ELSE Null,
         detail_delay_range |->
             IF enable_detail_capture
             THEN OrderedDelay(config.detail_delay_range)
             ELSE Null]

\* the eligibility filter of the page
EligibleNotPromoted(item, days) == ~Truthy(Get(item, "promoted"))

Eligible(item, days) ==
    /\ ~Truthy(Get(item, "promoted"))
    /\ Truthy(Get(item, "date"))
    /\ is_within_days(Get(item, "date"), days, Get(item, "promoted"))

EligibleListings(listings, days) ==
    SelectSeq(listings, LAMBDA item : Eligible(item, days))

RECURSIVE DeduplicatePerPage(_, _, _, _, _)
DeduplicatePerPage(eligible, k, seen, kept, dropped) ==
    IF k > Len(eligible) THEN [kept |-> kept, seen |-> {}, dropped |-> dropped]
    ELSE LET item_id == Get(eligible[k], "id")
         IN  IF Truthy(item_id) /\ item_id \in seen
             THEN DeduplicatePerPage(eligible, k + 1, seen, kept,
                                     Append(dropped, item_id))
             ELSE DeduplicatePerPage(eligible, k + 1,
                                     IF Truthy(item_id) THEN seen \cup {item_id}
                                     ELSE seen,
                                     Append(kept, eligible[k]), dropped)

RECURSIVE DeduplicateAnyId(_, _, _, _, _)
DeduplicateAnyId(eligible, k, seen, kept, dropped) ==
    IF k > Len(eligible) THEN [kept |-> kept, seen |-> seen, dropped |-> dropped]
    ELSE LET item_id == Get(eligible[k], "id")
         IN  IF item_id \in seen
             THEN DeduplicateAnyId(eligible, k + 1, seen, kept,
                                   Append(dropped, item_id))
             ELSE DeduplicateAnyId(eligible, k + 1, seen \cup {item_id},
                                   Append(kept, eligible[k]), dropped)

\* the duplicate check: items whose id is in seen_ids are skipped, the ids of
\* the others are added to seen_ids
RECURSIVE Deduplicate(_, _, _, _, _)
Deduplicate(eligible, k, seen, kept, dropped) ==
    IF k > Len(eligible) THEN [kept |-> kept, seen |-> seen, dropped |-> dropped]
    ELSE LET item_id == Get(eligible[k], "id")
         IN  IF Truthy(item_id) /\ item_id \in seen
             THEN Deduplicate(eligible, k + 1, seen, kept,
                              Append(dropped, item_id))
             ELSE Deduplicate(eligible, k + 1,
                              IF Truthy(item_id) THEN seen \cup {item_id}
                              ELSE seen,
                              Append(kept, eligible[k]), dropped)

RemainingLimitPerPage(limit, total_saved) ==
    IF limit = Null THEN Null ELSE limit

\* remaining_limit = max(0, limit - total_saved), None without limit
RemainingLimit(limit, total_saved) ==
    IF limit = Null THEN Null ELSE IntV(Max(0, limit[2] - total_saved))

\* items[:limit]
Prefix(items, limit) ==
    IF limit = Null THEN items ELSE SubSeq(items, 1, Min(Len(items), limit[2]))

Ids(listings) == [i \in 1..Len(listings) |-> Get(listings[i], "id")]

\* listing.get("_status") or STATUS_NEW
StatusValue(status) == IF status.status = "" THEN STATUS_NEW ELSE status.status

CountStatus(statuses, value) ==
    Cardinality({i \in 1..Len(statuses) : StatusValue(statuses[i]) = value})

\* detail_candidates, as positions in eligible_listings
DetailCandidates(statuses) ==
    {i \in 1..Len(statuses) : StatusValue(statuses[i]) # STATUS_UNCHANGED}

\* the listings at the given positions, in order
AtPositions(listings, positions) ==
    LET keep == [i \in 1..Len(listings) |-> i \in positions]
        F[i \in 0..Len(listings)] ==
            IF i = 0 THEN << >>
            ELSE IF keep[i] THEN Append(F[i - 1], listings[i]) ELSE F[i - 1]
    IN  F[Len(listings)]

\* {name: row.get(name) for name in CSV_FIELDNAMES}
Sanitized(row) == [name \in Range(CSV_FIELDNAMES) |-> Get(row, name)]

SavedRowsFirst(rows_, limit) ==
    IF rows_ = << >> THEN << >> ELSE << Sanitized(rows_[1]) >>

\* save_raw_filtered(rows, days, limit, pre_filtered=True): the rows it writes
SavedRows(rows_, limit) ==
    LET saved_rows == Prefix(rows_, limit)
    IN  [i \in 1..Len(saved_rows) |-> Sanitized(saved_rows[i])]

\* the stale cutoff over the full page
HasStale(listings, days) ==
    \E i \in 1..Len(listings) :
        /\ Truthy(Get(listings[i], "date"))
        /\ is_older_than_days(Get(listings[i], "date"), days,
                              Get(listings[i], "promoted"))

RunRecent == DateV(3000)
RunOld == DateV(1000)
\* a date text parse_mk_date cannot read
RunUnparsed == StrV("n/a")

RunLink(listing_id) ==
    IF listing_id = Null THEN StrV("http://example.com/None")
    ELSE IF listing_id = StrV("1") THEN StrV("http://example.com/1")
    ELSE IF listing_id = StrV("2") THEN StrV("http://example.com/2")
    ELSE StrV("http://example.com/3")

\* tests/test_run_scraper_dedup.py _make_listing
_make_listing(listing_id, date_text) ==
    [name \in Range(CSV_FIELDNAMES) |->
        IF name = "id" THEN listing_id
        ELSE IF name = "link" THEN RunLink(listing_id)
        ELSE IF name = "make" THEN StrV("Test")
        ELSE IF name = "model" THEN StrV("Model")
        ELSE IF name = "price" THEN IntV(1000)
        ELSE IF name = "date" THEN date_text
        ELSE IF name = "promoted" THEN BoolV(FALSE)
        ELSE Null]

RunItems ==
    {_make_listing(StrV("1"), RunRecent),
     _make_listing(StrV("2"), RunRecent),
     _make_listing(Null, RunRecent),
     [_make_listing(StrV("1"), RunOld) EXCEPT !["promoted"] = BoolV(TRUE)],
     _make_listing(StrV("2"), RunOld),
     _make_listing(StrV("3"), RunUnparsed)}

\* what parse_listing can return for a page
RunPages == UNION {[1..n -> RunItems] : n \in 0..MaxPageLen}

\* range(1, 200): the last page the loop asks for
PAGE_CEILING == 199

\* a page that holds nothing but a promoted listing
PromotedPage ==
    << [_make_listing(StrV("1"), RunOld) EXCEPT !["promoted"] = BoolV(TRUE)] >>

\* What the site serves as page number `page`: any page up to MaxPages; past
\* that the result list is over (an empty page), except that a run that has
\* found nothing so far may be served promoted listings on and on.
SitePages(page, total_found) ==
    IF page <= MaxPages THEN RunPages
    ELSE IF total_found = 0 THEN {<< >>, PromotedPage}
    ELSE {<< >>}

\* the rows a previous run left in the database
RunSeeds ==
    {<< >>,
     << _make_listing(StrV("1"), RunRecent),
        [_make_listing(StrV("2"), RunRecent) EXCEPT !["price"] = IntV(900)] >>}

\* db_connection: the run writes to the SQLite database
db_connection == TRUE

\* what fetch_detail_attributes returns for a candidate of the run
RunDetailOutcomes == {EmptyDict, [fuel |-> StrV("Diesel")]}

\* the configurations of the runs: UserSettings defaults for the detail
\* workers, any limit, detail capture and skip_unchanged on or off
RunConfigs ==
    [limit : {Null} \cup {IntV(n) : n \in 0..MaxLimit},
     days : {0, 1},
     enable_detail_capture : BOOLEAN,
     skip_unchanged : BOOLEAN,
     detail_worker_count : {IntV(3)},
     detail_rate_limit_permits : {Null},
     detail_delay_range : {DelayRange(1, 2)}]

NoCounts ==
    [total_found |-> 0, total_saved |-> 0, duplicates_skipped_total |-> 0,
     new |-> 0, changed |-> 0, unchanged |-> 0, skipped_unchanged_total |-> 0,
     pages_viewed |-> 0, detail_requests |-> 0]

RunInit ==
    /\ ClsIdle
    /\ FetchIdle
    /\ EnrichIdle
    /\ \E config \in RunConfigs : rCfg = NormalizeConfig(config)
    /\ \E seed \in RunSeeds :
          rows = upsert_many({}, << >>, seed, DB_FIELDNAMES, 0).rows
    /\ changes = << >>
    /\ writes = 0
    /\ lastCall = NoCall
    /\ prevCall = NoCall
    /\ preRows = {}
    /\ preLen = 0
    /\ rPage = 1
    /\ rPc = "fetch"
    /\ rStop = ""
    /\ rListings = << >>
    /\ rEligible = << >>
    /\ rStatus = << >>
    /\ rRemaining = Null
    /\ rSeen = {}
    /\ rCount = NoCounts
    /\ rClassified = << >>
    /\ rPersisted = << >>
    /\ rOffered = << >>
    /\ rSummary = << >>
    /\ rFetchedAt = {}

RunBreakGoesOn(reason) ==
    /\ rStop' = reason
    /\ rPc' = "classify"

\* break out of the page loop; finally: db_connection.close()
RunBreak(reason) ==
    /\ rStop' = reason
    /\ rPc' = "closed"

\* fetch_listing_page returned None: stop
RunFetchFails ==
    /\ rPc = "fetch"
    /\ rPage <= PAGE_CEILING
    /\ RunBreak("fetch_failed")
    /\ UNCHANGED <<rCfg, rPage, rListings, rEligible, rStatus, rRemaining,
                   rSeen, rCount, rClassified, rPersisted, rOffered, rSummary,
                   rFetchedAt>>
    /\ UNCHANGED <<storeVars, clsVars, fetchVars, enrichVars>>

\* the page was fetched and parsed: stop on an empty page, else select the
\* eligible listings, drop the duplicates and apply the limit
RunFetchPage(listings) ==
    /\ rPc = "fetch"
    /\ rPage <= PAGE_CEILING
    /\ rListings' = listings
    /\ IF listings = << >>
       THEN /\ RunBreak("empty_page")
            /\ UNCHANGED <<rEligible, rRemaining, rSeen, rCount, rOffered>>
       ELSE LET eligible == EligibleListings(listings, rCfg.days)
                dd == Deduplicate(eligible, 1, rSeen, << >>, << >>)
                remaining_limit == RemainingLimit(rCfg.limit, rCount.total_saved)
                capped == Prefix(dd.kept, remaining_limit)
                stop == remaining_limit = IntV(0)
            IN  /\ rSeen' = dd.seen
                /\ rOffered' = rOffered \o Ids(eligible)
                /\ rRemaining' = remaining_limit
                /\ rCount' = [rCount EXCEPT
                       !.pages_viewed = @ + 1,
                       !.duplicates_skipped_total = @ + Len(dd.dropped),
                       !.total_found = IF stop THEN @ ELSE @ + Len(capped)]
                /\ IF stop
                   THEN /\ RunBreak("limit_reached")
                        /\ UNCHANGED rEligible
                   ELSE /\ rEligible' = capped
                        /\ rPc' = "classify"
                        /\ UNCHANGED rStop
    /\ UNCHANGED <<rCfg, rPage, rStatus, rClassified, rPersisted, rSummary,
                   rFetchedAt>>
    /\ UNCHANGED <<storeVars, clsVars, fetchVars, enrichVars>>

\* classify_listing_status(eligible_listings, db_connection), the status
\* counters and detail_requests
RunClassify ==
    /\ rPc = "classify"
    /\ LET statuses == classify_listing_status(rEligible, db_connection, rows)
           candidates == DetailCandidates(statuses)
       IN  /\ rStatus' = statuses
           /\ rCount' = [rCount EXCEPT
                  !.new = @ + CountStatus(statuses, STATUS_NEW),
                  !.changed = @ + CountStatus(statuses, STATUS_CHANGED),
                  !.unchanged = @ + CountStatus(statuses, STATUS_UNCHANGED),
                  !.skipped_unchanged_total =
                      IF rCfg.skip_unchanged
                      THEN @ + CountStatus(statuses, STATUS_UNCHANGED) ELSE @,
                  !.detail_requests =
                      IF rCfg.enable_detail_capture
                      THEN @ + Cardinality(candidates) ELSE @]
    /\ rClassified' = rClassified \o Ids(rEligible)
    /\ rPc' = "enrich"
    /\ UNCHANGED <<rCfg, rPage, rStop, rListings, rEligible, rRemaining, rSeen,
                   rPersisted, rOffered, rSummary,
                   rFetchedAt>>
    /\ UNCHANGED <<storeVars, clsVars, fetchVars, enrichVars>>

RunEnrichStops(fetched) ==
    /\ rPc = "enrich"
    /\ rEligible' =
          [i \in 1..Len(rEligible) |->
              IF rCfg.enable_detail_capture /\ i \in DOMAIN fetched
              THEN MergeDetails(rEligible[i], fetched[i]) ELSE rEligible[i]]
    /\ rFetchedAt' = DOMAIN fetched
    /\ IF HasStale(rListings, rCfg.days)
       THEN RunBreak("stale")
       ELSE rPc' = "persist" /\ UNCHANGED rStop
    /\ UNCHANGED <<rCfg, rPage, rListings, rStatus, rRemaining, rSeen,
                   rCount, rClassified, rPersisted, rOffered, rSummary>>
    /\ UNCHANGED <<storeVars, clsVars, fetchVars, enrichVars>>

\* enrich_listings_with_details(detail_candidates, enable_detail_capture, ...)
RunEnrich(fetched) ==
    /\ rPc = "enrich"
    /\ rEligible' =
          [i \in 1..Len(rEligible) |->
              IF rCfg.enable_detail_capture /\ i \in DOMAIN fetched
              THEN MergeDetails(rEligible[i], fetched[i]) ELSE rEligible[i]]
    /\ rFetchedAt' = DOMAIN fetched
    /\ rPc' = "persist"
    /\ UNCHANGED <<rCfg, rPage, rStop, rListings, rStatus, rRemaining, rSeen,
                   rCount, rClassified, rPersisted, rOffered, rSummary>>
    /\ UNCHANGED <<storeVars, clsVars, fetchVars, enrichVars>>

RunFetchedAll ==
    IF rCfg.enable_detail_capture
    THEN [1..Len(rEligible) -> RunDetailOutcomes]
    ELSE {<< >>}

\* what the candidates' detail fetches can deliver: one fetch per listing of
\* detail_candidates, none when detail capture is off
RunFetched ==
    IF rCfg.enable_detail_capture
    THEN [DetailCandidates(rStatus) -> RunDetailOutcomes]
    ELSE {<< >>}

ListingsToPersistAll == rEligible

\* listings_to_persist
ListingsToPersist ==
    IF rCfg.skip_unchanged
    THEN AtPositions(rEligible, DetailCandidates(rStatus))
    ELSE rEligible

\* save_raw_filtered, total_saved, then the stop checks of the iteration
RunPersist ==
    /\ rPc = "persist"
    /\ LET saved_rows == SavedRows(ListingsToPersist, rRemaining)
           total_saved == rCount.total_saved + Len(saved_rows)
       IN  /\ IF saved_rows # << >>
              THEN StoreCall(saved_rows, DB_FIELDNAMES, rPage)
              ELSE UNCHANGED storeVars
           /\ rPersisted' = rPersisted \o Ids(saved_rows)
           /\ rCount' = [rCount EXCEPT !.total_saved = total_saved]
           /\ IF rCfg.limit # Null /\ total_saved >= rCfg.limit[2]
              THEN RunBreak("limit_reached") /\ UNCHANGED rPage
              ELSE IF HasStale(rListings, rCfg.days)
              THEN RunBreak("stale") /\ UNCHANGED rPage
              ELSE /\ rPage' = rPage + 1
                   /\ rPc' = "fetch"
                   /\ UNCHANGED rStop
    /\ UNCHANGED <<rCfg, rListings, rEligible, rStatus, rRemaining, rSeen,
                   rClassified, rOffered, rSummary,
                   rFetchedAt>>
    /\ UNCHANGED <<clsVars, fetchVars, enrichVars>>

\* sqlite_store.upsert_many raises: the transaction is rolled back and the
\* exception leaves the run
RunPersistFails(k) ==
    /\ rPc = "persist"
    /\ LET saved_rows == SavedRows(ListingsToPersist, rRemaining)
           after == upsert_many_fails(rows, changes, saved_rows, k,
                                      DB_FIELDNAMES, rPage)
       IN  /\ k \in 1..Len(saved_rows)
           /\ rows' = after.rows
           /\ changes' = after.changes
    /\ rStop' = "persist_error"
    /\ rPc' = "raised"
    /\ UNCHANGED <<rCfg, rPage, rListings, rEligible, rStatus, rRemaining,
                   rSeen, rCount, rClassified, rPersisted, rOffered, rSummary,
                   rFetchedAt>>
    /\ UNCHANGED <<writes, lastCall, prevCall, preRows, preLen>>
    /\ UNCHANGED <<clsVars, fetchVars, enrichVars>>

\* range(1, 200) is exhausted
RunExhausted ==
    /\ rPc = "fetch"
    /\ rPage > PAGE_CEILING
    /\ RunBreak("exhausted")
    /\ UNCHANGED <<rCfg, rPage, rListings, rEligible, rStatus, rRemaining,
                   rSeen, rCount, rClassified, rPersisted, rOffered, rSummary,
                   rFetchedAt>>
    /\ UNCHANGED <<storeVars, clsVars, fetchVars, enrichVars>>

\* the statements after the try block run when the loop ended by a break or
\* by exhaustion, not when an exception left it
SummaryReachedAlways(pc) == pc \in {"closed", "raised"}

SummaryReached(pc) == pc = "closed"

SummaryTotalsOnly(count) ==
    [total_found |-> count.total_found,
     total_saved |-> count.total_saved,
     duplicates_skipped_total |-> count.duplicates_skipped_total,
     new |-> 0,
     changed |-> 0,
     unchanged |-> 0,
     pages_viewed |-> count.pages_viewed,
     detail_requests |-> count.detail_requests]

\* the printed summary and the returned dict
Summary(count) ==
    [total_found |-> count.total_found,
     total_saved |-> count.total_saved,
     duplicates_skipped_total |-> count.duplicates_skipped_total,
     new |-> count.new,
     changed |-> count.changed,
     unchanged |-> count.unchanged,
     pages_viewed |-> count.pages_viewed,
     detail_requests |-> count.detail_requests]

\* print the summary and return
RunSummary ==
    /\ SummaryReached(rPc)
    /\ rSummary' = << Summary(rCount) >>
    /\ rPc' = "returned"
    /\ UNCHANGED <<rCfg, rPage, rStop, rListings, rEligible, rStatus,
                   rRemaining, rSeen, rCount, rClassified, rPersisted, rOffered,
                   rFetchedAt>>
    /\ UNCHANGED <<storeVars, clsVars, fetchVars, enrichVars>>

RunNext ==
    \/ RunFetchFails
    \/ \E listings \in SitePages(rPage, rCount.total_found) :
          RunFetchPage(listings)
    \/ RunClassify
    \/ \E fetched \in RunFetched : RunEnrich(fetched)
    \/ RunPersist
    \/ \E k \in 1..MaxPageLen : RunPersistFails(k)
    \/ RunExhausted
    \/ RunSummary

SpecRun == RunInit /\ [][RunNext]_vars

\* the run leaves the classification of the page
LeavesClassify == rPc = "classify" /\ rPc' = "enrich"

\* the run leaves the persist step of the page, by return or by exception
LeavesPersist == rPc = "persist" /\ rPc' \in {"fetch", "closed", "raised"}

\* The run is one sequential call: it goes on as long as it has a next
\* statement. RunClassify and RunPersist (or RunPersistFails) are enabled
\* whenever the run is at their position, so their fairness is stated on the
\* position.
SpecRunFair ==
    /\ SpecRun
    /\ WF_vars(\/ RunFetchFails
               \/ \E listings \in SitePages(rPage, rCount.total_found) :
                     RunFetchPage(listings)
               \/ RunExhausted)
    /\ WF_rPc(LeavesClassify)
    /\ WF_vars(\E fetched \in RunFetched : RunEnrich(fetched))
    /\ WF_rPc(LeavesPersist)
    /\ WF_vars(RunSummary)

---------------------------------------------------------------------------
(* Configuration of a run: any ScraperConfig is given, the run derives its   *)
(* settings and reaches the enrichment call of a page with some candidates.  *)
(* The config object stays at hand next to the derived settings.             *)

Configs ==
    [limit : {Null} \cup {IntV(n) : n \in -1..MaxLimit},
     days : {1},
     enable_detail_capture : BOOLEAN,
     skip_unchanged : {FALSE},
     detail_worker_count : {Null} \cup {IntV(n) : n \in -1..MaxConfig},
     detail_rate_limit_permits : {Null} \cup {IntV(n) : n \in -1..MaxConfig},
     detail_delay_range :
         {DETAIL_DELAY_UNSET, Null, DelayRange(1, 2), DelayRange(2, 1)}]

\* detail_candidates of the page
ConfigCandidates ==
    {<< >>,
     << [id |-> StrV("1"), link |-> EnrichUrl, fuel |-> Null],
        [id |-> StrV("2"), link |-> EnrichUrl, fuel |-> Null] >>}

ConfigInit ==
    /\ StoreInit
    /\ ClsIdle
    /\ FetchIdle
    /\ EnrichIdle
    /\ \E config \in Configs :
          rCfg = [config |-> config] @@ NormalizeConfig(config)
    /\ rPage = 1
    /\ rPc = "enrich"
    /\ rStop = ""
    /\ rListings = << >>
    /\ rEligible = << >>
    /\ rStatus = << >>
    /\ rRemaining = Null
    /\ rSeen = {}
    /\ rCount = NoCounts
    /\ rClassified = << >>
    /\ rPersisted = << >>
    /\ rOffered = << >>
    /\ rSummary = << >>
    /\ rFetchedAt = {}

\* enrich_listings_with_details(detail_candidates, enable_detail_capture,
\* ...) returns at once: detail capture is off or there is no candidate
ConfigEnrichReturns(listings) ==
    /\ rPc = "enrich"
    /\ ~rCfg.enable_detail_capture \/ listings = << >>
    /\ rPc' = "persist"
    /\ UNCHANGED <<rCfg, rPage, rStop, rListings, rEligible, rStatus,
                   rRemaining, rSeen, rCount, rClassified, rPersisted, rOffered,
                   rSummary,
                   rFetchedAt>>
    /\ UNCHANGED <<storeVars, clsVars, fetchVars, enrichVars>>

\* enrich_listings_with_details(detail_candidates, enable_detail_capture,
\* delay_range=detail_delay_range, max_items=None,
\* max_workers=detail_worker_count,
\* rate_limit_permits=detail_rate_limit_permits) up to the executor
ConfigEnrichStarts(listings) ==
    /\ rPc = "enrich"
    /\ rCfg.enable_detail_capture
    /\ listings # << >>
    /\ eListings' = listings
    /\ eInput' = listings
    /\ eTask' = [i \in 1..TotalToProcess(Len(listings), Null) |-> "new"]
    /\ eWorkers' = WorkerCount(rCfg.detail_worker_count)
    /\ eRate' = rCfg.detail_rate_limit_permits
    /\ eSemaphore' = NewSemaphore(eRate', eWorkers')
    /\ eFuture' = [i \in DOMAIN eTask' |-> Pending]
    /\ eFetched' = [i \in DOMAIN eTask' |-> EmptyDict]
    /\ ePc' = "submit"
    /\ rPc' = "enriching"
    /\ UNCHANGED <<eSubmitted, eResults, eOrder, eProgress>>
    /\ UNCHANGED <<rCfg, rPage, rStop, rListings, rEligible, rStatus,
                   rRemaining, rSeen, rCount, rClassified, rPersisted, rOffered,
                   rSummary,
                   rFetchedAt>>
    /\ UNCHANGED <<storeVars, clsVars, fetchVars>>

ConfigNext ==
    \/ \E listings \in ConfigCandidates : ConfigEnrichReturns(listings)
    \/ \E listings \in ConfigCandidates : ConfigEnrichStarts(listings)

SpecConfig == ConfigInit /\ [][ConfigNext]_vars

---------------------------------------------------------------------------
(* Persistence layer: what the latest upsert call did *)

LastItem == lastCall.listings[1]
LastNow == TimeV(lastCall.timestamp)
Tracked == Range(DB_FIELDNAMES)

\* a value that is null or empty (a blank string)
Missing(v) == v = Null \/ (v[1] = "str" /\ v[2] = "")

\* the identifier the record is stored under
StoredId(item) ==
    IF Missing(item["id"])
    THEN _calculate_listing_hash(
            [f \in Tracked |-> IF Missing(item[f]) THEN Null ELSE Strip(item[f])])
    ELSE Strip(item["id"])

HadRow == ExistingRows(preRows, StoredId(LastItem)) # {}
RowBefore == CHOOSE r \in ExistingRows(preRows, StoredId(LastItem)) : TRUE
RowNow == CHOOSE r \in ExistingRows(rows, StoredId(LastItem)) : TRUE
Appended == SubSeq(changes, preLen + 1, Len(changes))

\* merge-by-presence of the incoming value into the stored one
MergedValue(f) ==
    IF Missing(LastItem[f]) THEN RowBefore[f] ELSE Strip(LastItem[f])

FieldDiffers(f) == MergedValue(f) # RowBefore[f]

\* a Change Entry value carries v (None stays None, anything else is JSON text)
Carries(entry_value, v) ==
    IF v = Null THEN entry_value = Null
    ELSE entry_value[1] = "json" /\ entry_value[2] = v

\* C1: upserting the same record twice in a row stores the same content hash
\* after both writes, appends no Change Entry on the second write and leaves
\* updated_at at the value the first write set.
C1_Idempotence ==
    (writes >= 2 /\ lastCall.listings = prevCall.listings) =>
        /\ HadRow
        /\ RowNow["hash"] = RowBefore["hash"]
        /\ Appended = << >>
        /\ RowNow["updated_at"] = RowBefore["updated_at"]

\* the second of two equal upserts, at another time, after the first one
\* changed a row that an earlier write had created
C1_Witness ==
    /\ writes = 3
    /\ lastCall.listings = prevCall.listings
    /\ lastCall.timestamp # prevCall.timestamp
    /\ HadRow
    /\ RowBefore["created_at"] # RowBefore["updated_at"]
    /\ RowBefore["updated_at"] = TimeV(prevCall.timestamp)

\* C2: when a row exists and a tracked field of the incoming record is null
\* or blank, the stored value of that field is kept and no Change Entry is
\* appended for it; updated_at does not advance if no other field differs,
\* while last_seen becomes the write timestamp.
C2_MergeByPresence ==
    (writes >= 1 /\ HadRow) =>
        /\ \A f \in Tracked :
              Missing(LastItem[f]) =>
                 /\ RowNow[f] = RowBefore[f]
                 /\ \A i \in 1..Len(Appended) : Appended[i].field # f
        /\ ( /\ \E f \in Tracked : Missing(LastItem[f])
             /\ \A g \in Tracked :
                   ~Missing(LastItem[g]) => Strip(LastItem[g]) = RowBefore[g] )
           => RowNow["updated_at"] = RowBefore["updated_at"]
        /\ RowNow["last_seen"] = LastNow

\* a known price is observed missing at a later time and nothing else differs
C2_Witness ==
    /\ writes >= 2
    /\ HadRow
    /\ Missing(LastItem["price"])
    /\ RowBefore["price"] # Null
    /\ \A g \in Tracked :
          ~Missing(LastItem[g]) => Strip(LastItem[g]) = RowBefore[g]
    /\ RowBefore["last_seen"] # LastNow
    /\ RowNow["last_seen"] = LastNow

\* C3: when a row exists, the upsert appends exactly one Change Entry for each
\* tracked field other than the identifier whose merged value differs from the
\* stored one, with the old value, the new value and the write timestamp, and
\* no Change Entry for any other field.
C3_DiffCorrectness ==
    (writes >= 1 /\ HadRow) =>
        /\ \A f \in Tracked \ {"id"} :
              Cardinality({i \in 1..Len(Appended) : Appended[i].field = f})
                 = IF FieldDiffers(f) THEN 1 ELSE 0
        /\ \A i \in 1..Len(Appended) :
              /\ Appended[i].field \in Tracked \ {"id"}
              /\ Appended[i].listing_id = StoredId(LastItem)
              /\ Carries(Appended[i].old_value, RowBefore[Appended[i].field])
              /\ Carries(Appended[i].new_value, MergedValue(Appended[i].field))
              /\ Appended[i].changed_at = LastNow

\* an upsert that changed two fields of an existing row
C3_Witness ==
    /\ writes >= 2
    /\ HadRow
    /\ Len(Appended) = 2
    /\ FieldDiffers("price")
    /\ FieldDiffers("fuel")

NoPriorOrDiffers == ~HadRow \/ \E f \in Tracked : FieldDiffers(f)

\* C4 as stated: last_seen is the write timestamp, and updated_at equals the
\* write timestamp if and only if no prior row existed or a tracked field's
\* merged value differs; otherwise updated_at keeps its prior value.
C4_AsStated ==
    writes >= 1 =>
        /\ RowNow["last_seen"] = LastNow
        /\ (RowNow["updated_at"] = LastNow) <=> NoPriorOrDiffers
        /\ ~NoPriorOrDiffers => RowNow["updated_at"] = RowBefore["updated_at"]

\* C4 (amended): last_seen is the write timestamp; updated_at is the write
\* timestamp if no prior row existed or a tracked field's merged value
\* differs, and otherwise keeps its prior value (which is the write timestamp
\* only when the row was last updated at that same timestamp).
C4_UpdatedAtLastSeen ==
    writes >= 1 =>
        /\ RowNow["last_seen"] = LastNow
        /\ NoPriorOrDiffers => RowNow["updated_at"] = LastNow
        /\ ~NoPriorOrDiffers => RowNow["updated_at"] = RowBefore["updated_at"]
        /\ (RowNow["updated_at"] = LastNow) <=>
              (NoPriorOrDiffers \/ RowBefore["updated_at"] = LastNow)

\* an upsert of an existing row with no differing field, at a time other than
\* the one the row was last updated at
C4_Witness ==
    /\ writes >= 2
    /\ HadRow
    /\ ~NoPriorOrDiffers
    /\ RowBefore["updated_at"] # LastNow
    /\ RowNow["updated_at"] = RowBefore["updated_at"]
    /\ RowNow["last_seen"] = LastNow

---------------------------------------------------------------------------
(* Change classifier: the classified listing and the row found for it *)

ClsListing == clsListings[1]
ClsOut == clsResult[1]

\* the listing was classified against a store that holds a row for its id
ClsFound ==
    /\ clsPc = "done"
    /\ clsDb
    /\ ~Missing(ClsListing["id"])
    /\ ExistingRows(rows, ClsListing["id"]) # {}

ClsStored == CHOOSE r \in ExistingRows(rows, ClsListing["id"]) : TRUE

Parseable(v) == v[1] = "date"
MinutesApart(v, w) == IF v[2] >= w[2] THEN v[2] - w[2] ELSE w[2] - v[2]

ComparisonSubset == {"link", "price", "km", "date"}

\* the observed value of a compared field differs from the stored one: a
\* missing observation never differs, timestamps within one hour are equal
ComparedDiffers(f) ==
    /\ ~Missing(ClsListing[f])
    /\ IF f = "date" /\ Parseable(ClsListing[f]) /\ Parseable(ClsStored[f])
       THEN MinutesApart(ClsListing[f], ClsStored[f]) > 60
       ELSE Strip(ClsListing[f]) # ClsStored[f]

\* C9: for a listing found in the store, two parseable timestamps at most one
\* hour apart give no date diff, and more than one hour apart give a date
\* diff and the status changed.
C9_TimestampTolerance ==
    (ClsFound /\ Parseable(ClsListing["date"]) /\ Parseable(ClsStored["date"])) =>
        IF MinutesApart(ClsListing["date"], ClsStored["date"]) <= 60
        THEN "date" \notin DOMAIN ClsOut.changes
        ELSE /\ "date" \in DOMAIN ClsOut.changes
             /\ ClsOut.status = "changed"

\* stored 12:00, observed 13:00, everything else equal: unchanged
C9_Witness ==
    /\ ClsFound
    /\ ClsStored["date"] = DateV(720)
    /\ ClsListing["date"] = DateV(780)
    /\ ClsOut.status = "unchanged"

---------------------------------------------------------------------------
(* Fetch with retry *)

FetchEnded == fPc \in {"returned", "raised"}
AllTransient == \A i \in 1..Len(fOutcomes) : fOutcomes[i] = "transient"

\* C8: a page fetch or detail fetch whose every attempt fails with a
\* transient network error makes exactly the configured number of attempts,
\* sleeps backoff * attempt between consecutive attempts (strictly increasing
\* delays), does not sleep after the last attempt and returns the failure
\* value (no content / empty attributes) instead of raising; a successful
\* attempt ends the loop at once.
C8_RetryDeterminism ==
    /\ (FetchEnded /\ FetchHasUrl /\ AllTransient) =>
          /\ fPc = "returned"
          /\ Len(fOutcomes) = fRetries
          /\ fResult = IF fKind = "page" THEN Null ELSE << >>
    /\ Len(fOutcomes) <= fRetries
    /\ Len(fSleeps) = (IF FetchEnded /\ FetchHasUrl
                       THEN Len(fOutcomes) - 1 ELSE Len(fOutcomes))
    /\ \A i \in 1..Len(fSleeps) : fSleeps[i] = fBackoff * i
    /\ \A i \in 1..(Len(fSleeps) - 1) : fSleeps[i] < fSleeps[i + 1]
    /\ \A i \in 1..Len(fOutcomes) :
          fOutcomes[i] = "ok" =>
             /\ i = Len(fOutcomes)
             /\ fPc = "returned"
             /\ fResult \in (IF fKind = "page" THEN PageContents ELSE DetailAttributes)

\* three attempts, all failed: two sleeps, and the failure value returned
C8_Witness ==
    /\ fPc = "returned"
    /\ fRetries = 3
    /\ fOutcomes = << "transient", "transient", "transient" >>
    /\ fSleeps = << fBackoff, 2 * fBackoff >>
    /\ fBackoff = 2
    /\ fKind = "detail"
    /\ fResult = << >>

---------------------------------------------------------------------------
(* Detail enrichment *)

EnrichEnded == ePc = "done"

\* what sequential in-order processing makes of the i-th listing
SequentialResult(i) ==
    IF i <= Len(eTask) THEN MergeDetails(eInput[i], eFetched[i]) ELSE eInput[i]

\* C6 (bounded admission): with W workers and admission limit R, at no
\* instant of an enrichment batch are more than min(R, W) detail fetches in
\* flight, and at most W when the limiter is disabled.
C6_BoundedAdmission ==
    ePc # "idle" =>
        IF eRate # Null
        THEN Cardinality(InFlight) <= Min(eRate[2], eWorkers)
        ELSE Cardinality(InFlight) <= eWorkers

\* the limiter is what holds a fetch back: a worker has the third listing
\* and waits, the only permit is taken
C6_Witness ==
    /\ eRate = IntV(1)
    /\ eWorkers >= 2
    /\ Cardinality(InFlight) = 1
    /\ \E i \in Tasks : /\ eTask[i] = "running"
                        /\ ~IsNoneOrEmpty(eListings[i].link)

\* C7 (positional result integrity): whatever the completion order, the
\* attributes fetched for the i-th submitted listing end up in the i-th
\* listing and in no other, so the final listings equal those of sequential
\* in-order processing.
C7_PositionalIntegrity ==
    EnrichEnded =>
        /\ Len(eListings) = Len(eInput)
        /\ \A i \in 1..Len(eListings) : eListings[i] = SequentialResult(i)

\* two fetches that delivered different attributes completed in reverse order
C7_Witness ==
    /\ EnrichEnded
    /\ \E i, j \in Tasks :
          /\ i < j
          /\ \E a, b \in 1..Len(eOrder) :
                a < b /\ eOrder[a] = j /\ eOrder[b] = i
          /\ eFetched[i] # eFetched[j]
          /\ eListings[i] # eInput[i]
          /\ eListings[j] # eInput[j]

---------------------------------------------------------------------------
(* Crawl run *)

\* no identifier occurs twice in the sequence of ids
AtMostOnce(ids) ==
    \A i, j \in 1..Len(ids) :
        (i < j /\ Truthy(ids[i])) => ids[i] # ids[j]

\* the positions of the listings whose identifier an earlier listing of the
\* run carried already
Repeats(ids) ==
    {k \in 1..Len(ids) :
        Truthy(ids[k]) /\ \E j \in 1..(k - 1) : ids[j] = ids[k]}

\* C5 (session deduplication): within one crawl run an identifier is handed
\* to classification and to persistence at most once, on however many pages
\* or positions it appears, and the duplicates counter equals the number of
\* listings dropped for carrying an identifier seen before.
C5_SessionDeduplication ==
    rPc # "idle" =>
        /\ AtMostOnce(rClassified)
        /\ AtMostOnce(rPersisted)
        /\ rCount.duplicates_skipped_total = Cardinality(Repeats(rOffered))

\* an identifier came up again on the second page and once more on it, and
\* the run persisted what it kept
C5_Witness ==
    /\ rPc = "closed"
    /\ rCount.pages_viewed = 2
    /\ rCount.duplicates_skipped_total = 2
    /\ Len(rPersisted) >= 2
    /\ \E k \in Repeats(rOffered) :
          \E i \in 1..Len(rPersisted) : rPersisted[i] = rOffered[k]

---------------------------------------------------------------------------
(* Change classifier: listings without a stored row *)

ClsDone == clsPc = "done"

\* C11 (classification as new): a listing is classified new, with an empty
\* diff set, whenever there is no store access, or the listing has no
\* identifier, or its identifier is not found in the store.
C11_ClassifiedNew ==
    (ClsDone /\ (\/ ~clsDb
                 \/ IsNoneOrEmpty(ClsListing["id"])
                 \/ ExistingRows(rows, ClsListing["id"]) = {})) =>
        /\ ClsOut.status = "new"
        /\ DOMAIN ClsOut.changes = {}

\* the store is consulted and holds a row, but under another identifier
C11_Witness ==
    /\ ClsDone
    /\ clsDb
    /\ rows # {}
    /\ ClsListing["id"] = StrV("listing-2")
    /\ ClsListing["price"] = IntV(9900)
    /\ ClsOut.status = "new"

\* the detail-only and numeric fields the overview page may lack
DetailOrNumeric ==
    {"fuel", "gearbox", "body", "color", "registration", "reg_until",
     "emission_class", "km", "kw", "ps"}

\* the listing has a row in the table, lacks at least one detail-only or
\* numeric field the row holds, and equals the row in every other field
OnlyDetailsMissing(table) ==
    /\ clsDb
    /\ ~IsNoneOrEmpty(ClsListing["id"])
    /\ ExistingRows(table, ClsListing["id"]) # {}
    /\ LET stored == CHOOSE r \in ExistingRows(table, ClsListing["id"]) : TRUE
       IN  /\ \E f \in DetailOrNumeric :
                 Missing(ClsListing[f]) /\ ~Missing(stored[f])
           /\ \A f \in Tracked \ {"id"} :
                 \/ f \in DetailOrNumeric /\ Missing(ClsListing[f])
                 \/ ClsListing[f] = stored[f]

\* C12 (merge-by-presence in classification): a listing found in the store
\* whose detail-only or numeric fields are missing in the observation, the
\* other fields being equal to the stored ones, is unchanged with an empty
\* diff set; persisting it afterwards keeps the stored values and appends no
\* Change Entry.
C12_MergeByPresenceInClassification ==
    /\ (ClsDone /\ OnlyDetailsMissing(rows)) =>
          /\ ClsOut.status = "unchanged"
          /\ DOMAIN ClsOut.changes = {}
    /\ (clsPc = "persisted" /\ OnlyDetailsMissing(preRows)) =>
          /\ ClsOut.status = "unchanged"
          /\ \A f \in Tracked : RowNow[f] = RowBefore[f]
          /\ Appended = << >>

\* stored with fuel Diesel and 120000 km, observed without either, persisted
C12_Witness ==
    /\ clsPc = "persisted"
    /\ OnlyDetailsMissing(preRows)
    /\ ClsListing["fuel"] = Null
    /\ ClsListing["km"] = Null
    /\ RowNow["fuel"] = StrV("Diesel")
    /\ RowNow["km"] = IntV(120000)
    /\ RowNow["last_seen"] = TimeV(2)

\* the listing has a stored row and differs from it in the city only
OnlyCityDiffers ==
    /\ ClsFound
    /\ ~Missing(ClsListing["city"])
    /\ ClsListing["city"] # ClsStored["city"]
    /\ \A f \in Tracked \ {"id", "city"} : ClsListing[f] = ClsStored[f]

\* C13 (location change): a listing found in the store whose city differs
\* from the stored city, all other fields equal, is classified as not
\* unchanged, and its diff set has a city entry with the old and the new
\* city. STATUS_COMPARISON_FIELDS does not hold the city, so this fails.
C13_CityChangeDetected ==
    OnlyCityDiffers =>
        /\ ClsOut.status # "unchanged"
        /\ "city" \in DOMAIN ClsOut.changes
        /\ ClsOut.changes["city"] =
              [old |-> ClsStored["city"], new |-> ClsListing["city"]]

---------------------------------------------------------------------------
(* Detail enrichment: failures and the end of the call *)

\* the detail fetch of the item failed: fetch_detail_attributes gave up and
\* returned {}, or the worker raised
FetchFailed(i) ==
    /\ ~IsNoneOrEmpty(eInput[i].link)
    /\ \/ eFuture[i] = Raised
       \/ eFuture[i] = Returned(EmptyDict)

\* C14 (failure isolation): if the detail fetch of one item of a batch fails
\* (retries exhausted or the worker raises), that item gets an empty attribute
\* set and its listing is left unchanged, while every sibling is still
\* fetched and merged as if the failure had not happened.
C14_FailureIsolation ==
    EnrichEnded =>
        \A i \in Tasks :
            FetchFailed(i) =>
                /\ eResults[i] = EmptyDict
                /\ eListings[i] = eInput[i]
                /\ \A j \in Tasks \ {i} :
                      /\ eFuture[j].state # "pending"
                      /\ ~FetchFailed(j) => eResults[j] = eFetched[j]
                      /\ eListings[j] = MergeDetails(eInput[j], eFetched[j])

\* the first fetch raised, a later sibling was fetched and merged
C14_Witness ==
    /\ EnrichEnded
    /\ \E i, j \in Tasks :
          /\ i < j
          /\ eFuture[i] = Raised
          /\ eListings[i] = eInput[i]
          /\ eFuture[j].state = "returned"
          /\ eListings[j] # eInput[j]

\* C15 (synchronous barrier): no listing of the batch is modified, and the
\* call does not return, before every dispatched item has completed; when it
\* returns the progress signal has fired exactly once per dispatched item,
\* whether the item succeeded or failed.
C15_SynchronousBarrier ==
    ePc # "idle" =>
        /\ (eListings # eInput \/ EnrichEnded) =>
              \A i \in Tasks : eTask[i] = "done"
        /\ EnrichEnded =>
              /\ eProgress = Len(eTask)
              /\ Len(eOrder) = Len(eTask)
              /\ \A i \in Tasks : \E k \in 1..Len(eOrder) : eOrder[k] = i

\* three items were dispatched, one fetch raised, one listing was merged,
\* and the progress signal fired three times
C15_Witness ==
    /\ EnrichEnded
    /\ Len(eTask) = 3
    /\ eProgress = 3
    /\ \E i \in Tasks : eFuture[i] = Raised
    /\ eListings # eInput

---------------------------------------------------------------------------
(* Persistence layer: a batch that fails *)

BatchFailed == lastCall.failed_at > 0

\* the listings of the failed batch that were written before the error
WrittenBeforeError == SubSeq(lastCall.listings, 1, lastCall.failed_at - 1)

\* C16 (batch atomicity): if a persistence error occurs while upsert_many
\* writes a batch, the store afterwards holds none of the rows and none of
\* the Change Entries written by that batch (the state before the call), and
\* the error is propagated to the caller.
C16_BatchAtomicity ==
    BatchFailed =>
        /\ rows = preRows
        /\ Len(changes) = preLen
        /\ Appended = << >>
        /\ \A i \in 1..Len(WrittenBeforeError) :
              ExistingRows(rows, StoredId(WrittenBeforeError[i])) =
              ExistingRows(preRows, StoredId(WrittenBeforeError[i]))

\* the error came at the second listing of a batch whose first listing had
\* changed the price of a stored row: neither the new price nor its Change
\* Entry is in the store
C16_Witness ==
    /\ BatchFailed
    /\ lastCall.failed_at = 2
    /\ ExistingRows(preRows, StrV("abc")) # {}
    /\ LET stored == CHOOSE r \in ExistingRows(rows, StrV("abc")) : TRUE
       IN  /\ ~Missing(lastCall.listings[1]["id"])
           /\ lastCall.listings[1]["price"] # stored["price"]
    /\ rows = preRows

---------------------------------------------------------------------------
(* Crawl run: persistence errors *)

PersistFailed == rStop = "persist_error"

\* C17: a persistence error is fatal to the run. The failed persist step
\* writes nothing, the run is then over without a summary, and no step
\* follows it: no further page is fetched, nothing is written, the persist
\* step is not tried again.
C17_PersistErrorFatal ==
    /\ [](PersistFailed => rPc = "raised" /\ rSummary = << >>)
    /\ [][ /\ ~PersistFailed
           /\ (PersistFailed' =>
                 /\ rows' = rows
                 /\ changes' = changes
                 /\ UNCHANGED <<rPage, rCount, rPersisted>>) ]_vars

\* a persist step failed on the second page, after the first page was written
C17_Witness ==
    /\ PersistFailed
    /\ rPage = 2
    /\ writes = 1
    /\ rPersisted # << >>
    /\ rCount.pages_viewed = 2

---------------------------------------------------------------------------
(* Crawl run: termination *)

TerminalStates ==
    {"fetch_failed", "empty_page", "limit_reached", "stale", "exhausted"}

RunReturned == rPc = "returned"

\* the summary was printed with the counters of the run
SummaryEmitted ==
    /\ Len(rSummary) = 1
    /\ rSummary[1].total_found = rCount.total_found
    /\ rSummary[1].total_saved = rCount.total_saved
    /\ rSummary[1].duplicates_skipped_total = rCount.duplicates_skipped_total
    /\ rSummary[1].new = rCount.new
    /\ rSummary[1].changed = rCount.changed
    /\ rSummary[1].unchanged = rCount.unchanged

---------------------------------------------------------------------------
(* Crawl run: save limit *)

LimitConfigured == rCfg.limit # Null

LimitReached == LimitConfigured /\ rCount.total_saved >= rCfg.limit[2]

\* C19: with a save limit L the number of saved listings never exceeds L,
\* and once it has reached L after a persist step the loop ends with stop
\* reason limit-reached: no further page is fetched.
C19_GlobalSaveLimit ==
    /\ [](LimitConfigured =>
            /\ rCount.total_saved <= rCfg.limit[2]
            /\ Len(rPersisted) <= rCfg.limit[2]
            /\ (LimitReached =>
                  /\ rPc \in {"closed", "returned"}
                  /\ rStop = "limit_reached"))
    /\ [][LimitReached =>
            /\ rPage' = rPage
            /\ rListings' = rListings
            /\ rCount'.pages_viewed = rCount.pages_viewed
            /\ UNCHANGED storeVars]_vars

\* the limit of 2 was reached on the second page, which offered more
C19_Witness ==
    /\ rCfg.limit = IntV(2)
    /\ rCount.total_saved = 2
    /\ rStop = "limit_reached"
    /\ rPage = 2
    /\ Len(rListings) = 2
    /\ rCount.total_found = 2
    /\ writes = 2

---------------------------------------------------------------------------
(* Crawl run: stale cutoff *)

\* the listing is not promoted and its date is read as older than the window
StaleListing(item) ==
    /\ Get(item, "promoted") = BoolV(FALSE)
    /\ Get(item, "date")[1] = "date"
    /\ Get(item, "date")[2] < RunNow - rCfg.days * MinutesPerDay

StalePage == \E i \in 1..Len(rListings) : StaleListing(rListings[i])

\* the page is through its persist step
PagePersisted == rPc \in {"fetch", "closed", "returned"} /\ rPage >= 1

\* the ids of the listings of the page that pass the recency filter
EligibleIds == Ids(EligibleListings(rListings, rCfg.days))

Last(seq, n) == SubSeq(seq, Len(seq) - n + 1, Len(seq))

\* C20: a page with a stale listing is still processed: its eligible
\* listings (after the duplicate check and the limit) are classified and the
\* ones selected for persisting are written; after that the loop ends and no
\* further page is fetched. The loop ends as stale only if the page holds a
\* stale listing: promoted listings and unreadable dates do not count.
C20_StaleCutoff ==
    /\ [](rStop = "stale" => StalePage)
    /\ [](StalePage /\ rListings # << >> /\ rPc \in {"closed", "returned"} =>
            /\ rStop \in {"stale", "limit_reached"}
            /\ Len(rClassified) >= Len(rEligible)
            /\ Last(rClassified, Len(rEligible)) = Ids(rEligible)
            /\ LET saved == Ids(SavedRows(ListingsToPersist, rRemaining))
               IN  /\ Len(rPersisted) >= Len(saved)
                   /\ Last(rPersisted, Len(saved)) = saved)
    /\ [](StalePage => rPc # "fetch")
    /\ [][StalePage /\ rPc \in {"closed", "returned"} =>
            /\ rPage' = rPage
            /\ rListings' = rListings
            /\ UNCHANGED storeVars]_vars

\* a page with a stale and a fresh listing: the fresh one was written, then
\* the loop ended as stale
C20_Witness ==
    /\ rStop = "stale"
    /\ StalePage
    /\ Len(rEligible) = 1
    /\ rPersisted # << >>
    /\ rPersisted[Len(rPersisted)] = Get(rEligible[1], "id")
    /\ lastCall.timestamp = rPage

---------------------------------------------------------------------------
(* Crawl run: stop on fetch failure or empty page *)

StoppedAtFetch == rStop \in {"fetch_failed", "empty_page"}

\* what the run has classified, enriched and written so far
PageWork ==
    <<rows, changes, writes, rClassified, rPersisted, rEligible, rStatus,
      rCount.total_found, rCount.total_saved, rCount.detail_requests,
      rCount.new, rCount.changed, rCount.unchanged>>

\* C21: when the fetch of page p fails or page p has no listings, the run
\* stops: nothing is classified, enriched or persisted for page p, no page
\* after p is fetched, and what the pages before p wrote stays written.
C21_StopOnFetchFailureOrEmptyPage ==
    /\ [](StoppedAtFetch => rPc \in {"closed", "returned"})
    /\ [][StoppedAtFetch' => PageWork' = PageWork /\ rPage' = rPage]_vars
    /\ [][StoppedAtFetch => rListings' = rListings /\ rStop' = rStop]_vars

\* page 1 gave two eligible listings, page 2 was empty: two saved
C21_Witness ==
    /\ rStop = "empty_page"
    /\ rPage = 2
    /\ rListings = << >>
    /\ rCount.total_saved = 2
    /\ Cardinality(rows) >= 2
    /\ rPc = "returned"

---------------------------------------------------------------------------
(* Crawl run: eligibility filter *)

\* the listing is not promoted and its date is read as within the window
FreshListing(item) ==
    /\ Get(item, "promoted") = BoolV(FALSE)
    /\ Get(item, "date")[1] = "date"
    /\ Get(item, "date")[2] >= RunNow - rCfg.days * MinutesPerDay

AllFresh(listings) == \A i \in 1..Len(listings) : FreshListing(listings[i])

\* C22: only listings that are not promoted and dated within the recency
\* window reach the duplicate check, classification, enrichment and the
\* store; a promoted listing is never written, whatever its date.
C22_EligibilityFilter ==
    /\ [](AllFresh(rEligible) /\ AllFresh(lastCall.listings))
    /\ [](StrV("3") \notin rSeen)
    /\ [][rOffered' # rOffered =>
            rOffered' = rOffered \o
                Ids(SelectSeq(rListings', LAMBDA item : FreshListing(item)))]_vars
    /\ [][rClassified' # rClassified =>
            /\ AllFresh(rEligible)
            /\ rClassified' = rClassified \o Ids(rEligible)]_vars
    /\ [][rows' # rows =>
            /\ AllFresh(lastCall'.listings)
            /\ \A i \in 1..Len(lastCall'.listings) :
                  \E k \in 1..Len(rListings) :
                      /\ FreshListing(rListings[k])
                      /\ Get(rListings[k], "id") =
                             Get(lastCall'.listings[i], "id")]_vars

\* a page with an old promoted listing and a fresh one: the fresh one alone
\* was written
C22_Witness ==
    /\ Len(rListings) = 2
    /\ Get(rListings[1], "promoted") = BoolV(TRUE)
    /\ Get(rListings[1], "date") = RunOld
    /\ FreshListing(rListings[2])
    /\ rPc = "closed"
    /\ Len(lastCall.listings) = 1
    /\ lastCall.timestamp = rPage
    /\ Get(lastCall.listings[1], "id") = Get(rListings[2], "id")

---------------------------------------------------------------------------
(* Crawl run: skip_unchanged *)

\* the persist step of the page returns
PersistReturns == rPc = "persist" /\ rPc' \in {"fetch", "closed"}

UnchangedAt(i) == rStatus[i].status = "unchanged"

\* the rows upsert_many was given in this step, none if it was not called
PassedToStore == IF writes' = writes THEN << >> ELSE lastCall'.listings

\* C23: with skip_unchanged a listing classified unchanged is not handed to
\* the store and its row stays as it was, last_seen included; without it
\* every listing of the page that got through filter, duplicate check and
\* limit is handed to the store, the unchanged ones too.
C23_SkipUnchanged ==
    [][PersistReturns =>
         IF rCfg.skip_unchanged
         THEN /\ \A i \in 1..Len(rEligible) :
                    UnchangedAt(i) =>
                       /\ \A k \in 1..Len(PassedToStore) :
                             Get(PassedToStore[k], "id") # Get(rEligible[i], "id")
                       /\ ExistingRows(rows', Get(rEligible[i], "id")) =
                              ExistingRows(rows, Get(rEligible[i], "id"))
              /\ Len(PassedToStore) =
                     Cardinality({i \in 1..Len(rEligible) : ~UnchangedAt(i)})
         ELSE /\ Len(PassedToStore) = Len(rEligible)
              /\ \A i \in 1..Len(rEligible) :
                    /\ Get(PassedToStore[i], "id") = Get(rEligible[i], "id")
                    /\ Get(PassedToStore[i], "price") = Get(rEligible[i], "price")
                    /\ (UnchangedAt(i) =>
                          \A r \in ExistingRows(rows', Get(rEligible[i], "id")) :
                              r["last_seen"] = TimeV(rPage))]_vars

\* skip_unchanged: the page held an unchanged and a changed listing, the
\* changed one alone was written and the row of the other kept its last_seen
C23_Witness ==
    /\ rCfg.skip_unchanged
    /\ rPc = "closed"
    /\ Len(rEligible) = 2
    /\ UnchangedAt(1)
    /\ rStatus[2].status = "changed"
    /\ Len(lastCall.listings) = 1
    /\ writes = 1
    /\ lastCall.timestamp = 1
    /\ \A r \in ExistingRows(rows, Get(rEligible[1], "id")) :
          r["last_seen"] = TimeV(0)
    /\ \A r \in ExistingRows(rows, Get(rEligible[2], "id")) :
          r["last_seen"] = TimeV(1)

---------------------------------------------------------------------------
(* Persistence layer: created_at *)

StoredIds(table) == {r["id"] : r \in table}

\* C24: created_at is immutable. The write that creates a row gives it the
\* timestamp of that write, and no later upsert of the listing changes it.
C24_CreatedAtImmutable ==
    [][\A r \in rows' :
          IF r["id"] \in StoredIds(rows)
          THEN \A old \in rows :
                  old["id"] = r["id"] => r["created_at"] = old["created_at"]
          ELSE r["created_at"] = TimeV(lastCall'.timestamp)]_vars

\* a row created at time 2 was written again at time 1 with another price:
\* updated_at and last_seen moved, created_at did not
C24_Witness ==
    /\ writes >= 2
    /\ lastCall.timestamp = 1
    /\ \E r \in rows :
          /\ r["id"] = Get(lastCall.listings[1], "id")
          /\ r["created_at"] = TimeV(2)
          /\ r["updated_at"] = TimeV(1)
          /\ r["last_seen"] = TimeV(1)

---------------------------------------------------------------------------
(* Persistence layer: history *)

\* C25: the store only grows. No upsert call, failed or not, modifies or
\* removes a Change Entry that exists, and no identifier that has a row
\* loses it.
C25_AppendOnly ==
    [][/\ Len(changes') >= Len(changes)
       /\ SubSeq(changes', 1, Len(changes)) = changes
       /\ \A r \in rows : \E r2 \in rows' : r2["id"] = r["id"]
       /\ Cardinality(rows') >= Cardinality(rows)]_vars

\* a call that found a Change Entry and a row, and added one of each
C25_Witness ==
    /\ preLen >= 1
    /\ Len(changes) > preLen
    /\ preRows # {}
    /\ Cardinality(rows) > Cardinality(preRows)
    /\ lastCall.failed_at = 0

---------------------------------------------------------------------------
(* Persistence layer: content hash *)

\* the tracked field values the row holds
TrackedValues(r) == [name \in Range(DB_FIELDNAMES) |-> r[name]]

\* C26: with every write using the same tracked-field list, the hash column
\* of each row is the digest of the tracked values that row holds, which are
\* the merged values: a blank incoming field neither reaches the row nor the
\* hash.
C26_HashConsistency ==
    \A r \in rows : r["hash"] = <<"hash", TrackedValues(r), 0>>

\* the latest upsert came with a blank fuel and no price for a row that has
\* both: the row and its hash kept them
C26_Witness ==
    /\ writes >= 2
    /\ Get(lastCall.listings[1], "fuel") = PaddedV("")
    /\ Get(lastCall.listings[1], "price") = Null
    /\ \E r \in rows :
          /\ r["id"] = Get(lastCall.listings[1], "id")
          /\ r["fuel"] = StrV("Diesel")
          /\ r["price"] = IntV(15500)
          /\ r["hash"][2]["fuel"] = StrV("Diesel")
          /\ r["hash"][2]["price"] = IntV(15500)
          /\ r["last_seen"] = TimeV(lastCall.timestamp)

---------------------------------------------------------------------------
(* Persistence layer: identity *)

NoIdentifier(listing) == Get(listing, "id") \in {Null, StrV(""), PaddedV("")}

\* the digest of the record's tracked values as observed, without identifier
OwnDigest(listing) ==
    <<"hash",
      [name \in Range(DB_FIELDNAMES) |->
          IF name = "id" THEN Null ELSE _clean_field_value(Get(listing, name))],
      0>>

\* C27: no two rows share an identifier; a record without identifier (absent
\* or empty) is stored under the digest of its own tracked field values, so
\* a second upsert of an identical identifier-less record adds no row.
C27_StoreIdentity ==
    /\ [](\A r1, r2 \in rows : r1["id"] = r2["id"] => r1 = r2)
    /\ [](\A r \in rows :
             r["id"][1] = "hash" =>
                r["id"] = <<"hash", [TrackedValues(r) EXCEPT !["id"] = Null], 0>>)
    /\ [](writes > 0 /\ NoIdentifier(lastCall.listings[1]) =>
             \E r \in rows :
                /\ r["id"] = OwnDigest(lastCall.listings[1])
                /\ \A name \in Range(DB_FIELDNAMES) \ {"id"} :
                      r[name] = _clean_field_value(Get(lastCall.listings[1], name)))
    /\ [][/\ writes > 0
          /\ NoIdentifier(lastCall.listings[1])
          /\ NoIdentifier(lastCall'.listings[1])
          /\ OwnDigest(lastCall'.listings[1]) = OwnDigest(lastCall.listings[1])
          => Cardinality(rows') = Cardinality(rows)]_vars

\* an identifier-less record was upserted twice, once with an absent and once
\* with an empty identifier, next to a row with an identifier: two rows, not
\* three
C27_Witness ==
    /\ writes = 3
    /\ Get(lastCall.listings[1], "id") = StrV("")
    /\ Get(prevCall.listings[1], "id") = Null
    /\ OwnDigest(lastCall.listings[1]) = OwnDigest(prevCall.listings[1])
    /\ Cardinality(rows) = 2
    /\ \E r \in rows : r["id"] = StrV("abc")

---------------------------------------------------------------------------
(* Configuration bounds *)

EngineStarted == ePc # "idle"

\* C28: whatever configuration is given, the run works with a worker count
\* in 1..5, with admission permits that are disabled or in 1..worker count,
\* and with a save limit that is absent or positive; the enrichment engine
\* gets these values. With detail capture disabled the worker count is 1,
\* admission limit and pacing delay are disabled, and no engine starts.
C28_ConfigurationBounds ==
    /\ rCfg.detail_worker_count \in 1..5
    /\ \/ rCfg.detail_rate_limit_permits = Null
       \/ /\ rCfg.detail_rate_limit_permits[1] = "int"
          /\ rCfg.detail_rate_limit_permits[2] \in 1..rCfg.detail_worker_count
    /\ rCfg.limit = Null \/ (rCfg.limit[1] = "int" /\ rCfg.limit[2] > 0)
    /\ ~rCfg.enable_detail_capture =>
          /\ rCfg.detail_worker_count = 1
          /\ rCfg.detail_rate_limit_permits = Null
          /\ rCfg.detail_delay_range = Null
          /\ ~EngineStarted
    /\ rCfg.enable_detail_capture /\ rCfg.detail_delay_range # Null =>
          rCfg.detail_delay_range[2] <= rCfg.detail_delay_range[3]
    /\ EngineStarted =>
          /\ eWorkers = rCfg.detail_worker_count
          /\ eWorkers \in 1..5
          /\ eSemaphore.limited <=> rCfg.detail_rate_limit_permits # Null
          /\ eSemaphore.limited =>
                eSemaphore.value = rCfg.detail_rate_limit_permits[2]

\* a configuration with 7 workers, 7 permits and a limit of -1: the engine
\* started with 5 workers and 5 permits, the run has no limit
C28_Witness ==
    /\ rCfg.config.detail_worker_count = IntV(7)
    /\ rCfg.config.detail_rate_limit_permits = IntV(7)
    /\ rCfg.config.limit = IntV(-1)
    /\ EngineStarted
    /\ eWorkers = 5
    /\ eSemaphore = [limited |-> TRUE, value |-> 5]
    /\ rCfg.limit = Null

---------------------------------------------------------------------------
(* Crawl run: listings without identifier *)

\* the identifier-less listings among the given ones, in order
WithoutId(listings) ==
    SelectSeq(listings, LAMBDA item : Get(item, "id") \in {Null, StrV("")})

\* the identifier-less listings of the page that pass the eligibility filter
FreshWithoutId(listings) ==
    WithoutId(SelectSeq(listings, LAMBDA item : FreshListing(item)))

\* the step from the fetched page to its classification
PageSelected == rPc = "fetch" /\ rPc' = "classify"

\* C29 as stated: every identifier-less eligible listing of every page is
\* passed on to classification.
C29_AsStated ==
    [][PageSelected =>
          WithoutId(rEligible') = FreshWithoutId(rListings')]_vars

\* C29 (amended): the duplicate check never drops a listing without
\* identifier and never registers one in seen_ids; every identifier-less
\* eligible listing of a page is passed on to classification unless the save
\* limit cuts the page short.
C29_NoIdNeverDeduplicated ==
    /\ [](Null \notin rSeen /\ StrV("") \notin rSeen)
    /\ [][PageSelected =>
            /\ rCount'.duplicates_skipped_total - rCount.duplicates_skipped_total
                  <= Len(rOffered') - Len(rOffered)
                        - Len(FreshWithoutId(rListings'))
            /\ \/ WithoutId(rEligible') = FreshWithoutId(rListings')
               \/ /\ rRemaining' # Null
                  /\ Len(rEligible') = rRemaining'[2]]_vars
    /\ [][rPc = "classify" /\ rPc' = "enrich" =>
            Len(WithoutId(rEligible)) =
               Cardinality({i \in Len(rClassified) + 1 .. Len(rClassified') :
                               rClassified'[i] = Null})]_vars

\* the second page holds two identifier-less listings like those of the
\* first page: all four were classified
C29_Witness ==
    /\ rPage = 2
    /\ rPc = "enrich"
    /\ Len(WithoutId(rEligible)) = 2
    /\ Cardinality({i \in 1..Len(rClassified) : rClassified[i] = Null}) = 4
    /\ rCount.duplicates_skipped_total = 0

---------------------------------------------------------------------------
\* Enrichment candidates

\* the positions of the page's surviving listings whose status is not
\* unchanged
NotUnchanged ==
    {i \in 1..Len(rStatus) : rStatus[i].status # STATUS_UNCHANGED}

\* C30: once the enrichment of a page has returned, the detail pages fetched
\* are those of exactly the page's surviving listings whose status is not
\* unchanged, so none of a listing classified unchanged, and none at all when
\* detail capture is disabled; detail_requests counts no more than the
\* listings classified new or changed; classified without a database, every
\* surviving listing is a candidate.
C30_EnrichmentCandidates ==
    /\ rPc = "persist" =>
          /\ Len(rStatus) = Len(rEligible)
          /\ rFetchedAt =
                IF rCfg.enable_detail_capture THEN NotUnchanged ELSE {}
          /\ \A i \in 1..Len(rEligible) :
                classify_listing_status(rEligible, FALSE, rows)[i].status
                    # STATUS_UNCHANGED
    /\ rCount.detail_requests =
          IF rCfg.enable_detail_capture
          THEN rCount.new + rCount.changed ELSE 0

\* a page of one unchanged and one changed listing with detail capture on:
\* only the changed listing's detail page was fetched
C30_Witness ==
    /\ rPc = "persist"
    /\ rCfg.enable_detail_capture
    /\ Len(rEligible) = 2
    /\ rStatus[1].status = STATUS_UNCHANGED
    /\ rStatus[2].status = STATUS_CHANGED
    /\ rFetchedAt = {2}
    /\ rCount.detail_requests = 1

---------------------------------------------------------------------------
(* Detail enrichment: merge by presence *)

\* the fetched attributes that carry a value: neither None nor ""
FetchedPresent(i) ==
    {k \in DOMAIN eResults[i] :
        eResults[i][k] # Null /\ eResults[i][k] # StrV("")}

\* C31 (merge-by-presence in enrichment): when the batch has ended, every
\* dispatched listing holds the fetched value in each field whose fetched
\* value is neither null nor empty, and its own former value in every other
\* field, be the field absent from the fetched set or fetched null or empty;
\* no field appears that the listing did not have and the fetch did not fill.
C31_MergeByPresence ==
    EnrichEnded =>
        \A i \in Tasks :
            /\ DOMAIN eListings[i] = DOMAIN eInput[i] \cup FetchedPresent(i)
            /\ \A k \in DOMAIN eListings[i] :
                  eListings[i][k] =
                     IF k \in FetchedPresent(i)
                     THEN eResults[i][k] ELSE eInput[i][k]

\* a fetch returned fuel "" and km None next to a colour: the listing keeps
\* its fuel and km and gains the colour
C31_Witness ==
    /\ EnrichEnded
    /\ \E i \in Tasks :
          /\ eResults[i] =
                [fuel |-> StrV(""), color |-> StrV("Blue"), km |-> Null]
          /\ eInput[i]["fuel"] = StrV("Petrol")
          /\ eListings[i]["fuel"] = StrV("Petrol")
          /\ eListings[i]["km"] = IntV(90000)
          /\ eListings[i]["color"] = StrV("Blue")

---------------------------------------------------------------------------
(* Crawl run: one page after the other *)

\* the rows the persist step of the current page hands to the store
PageRows == SavedRows(ListingsToPersist, rRemaining)

\* the last n identifiers of the sequence
LastIds(ids, n) == SubSeq(ids, Len(ids) - n + 1, Len(ids))

\* the page the run worked on last went through every step
PageComplete ==
    /\ rListings # << >>
    /\ Len(rStatus) = Len(rEligible)
    /\ LastIds(rClassified, Len(rEligible)) = Ids(rEligible)
    /\ rFetchedAt \subseteq 1..Len(rEligible)
    /\ rCfg.enable_detail_capture =>
          \A i \in 1..Len(rStatus) :
              rStatus[i].status # STATUS_UNCHANGED => i \in rFetchedAt
    /\ Len(rPersisted) >= Len(PageRows)
    /\ LastIds(rPersisted, Len(PageRows)) = Ids(PageRows)

\* C32 (strictly sequential pages): the page number only grows by one, in
\* the persist step; when the fetch of page p+1 is due, page p has been
\* filtered, deduplicated, classified, enriched and persisted; the steps of a
\* page follow each other in this order and no stop decision is taken in the
\* classification or the enrichment step: once the enrichment of a page has
\* run, the page is handed to the store before the run stops.
C32_SequentialPages ==
    /\ [](rPage > 1 /\ rPc = "fetch" => PageComplete)
    /\ [](rStop \in {"limit_reached", "stale"} /\ rListings # << >>
             /\ rRemaining # IntV(0) => PageComplete)
    /\ [][/\ rPage' # rPage =>
                rPc = "persist" /\ rPc' = "fetch" /\ rPage' = rPage + 1
          /\ rPc = "fetch" /\ rPc' # rPc => rPc' \in {"classify", "closed"}
          /\ rPc = "classify" /\ rPc' # rPc =>
                rPc' = "enrich" /\ rStop' = rStop /\ rPage' = rPage
          /\ rPc = "enrich" /\ rPc' # rPc =>
                rPc' = "persist" /\ rStop' = rStop /\ rPage' = rPage
          /\ rPc = "persist" /\ rPc' # rPc =>
                rPc' \in {"fetch", "closed", "raised"}
          /\ rStop' # rStop => rPc \in {"fetch", "persist"}]_vars

\* the second page holds a stale listing; its candidates were enriched and
\* its rows stored before the run stopped
C32_Witness ==
    /\ rPage = 2
    /\ rStop = "stale"
    /\ rPc = "closed"
    /\ rFetchedAt # {}
    /\ PageRows # << >>
    /\ PageComplete
    /\ writes = 2

---------------------------------------------------------------------------
(* Change classifier: the synthetic hash marker *)

\* the hash of the observed listing merged with the stored row
MergedRecordHash ==
    calculate_listing_hash(
        WithFallback(_normalize_listing_payload_for_hash(ClsListing), ClsStored))

\* the field-level entries of the diff set
FieldLevelDiffs == DOMAIN ClsOut.changes \ {"hash"}

---------------------------------------------------------------------------
(* Crawl run: the counters *)

\* the relations between the counters of the summary
CountersConsistent ==
    /\ rCount.new + rCount.changed + rCount.unchanged = rCount.total_found
    /\ rCount.total_saved <= rCount.total_found
    /\ IF rCfg.skip_unchanged
       THEN /\ rCount.total_saved = rCount.new + rCount.changed
            /\ rCount.skipped_unchanged_total = rCount.unchanged
       ELSE /\ rCount.total_saved = rCount.total_found
            /\ rCount.skipped_unchanged_total = 0

\* no page is in work: the next page is due, or the loop was left by a break
BetweenPages == rPc \in {"fetch", "closed", "returned"}

\* C34 as stated: the counters are consistent in every reachable state.
C34_AsStated == CountersConsistent

\* C34 (amended): whenever no page is in work, that is before every page
\* fetch, after every break of the page loop and in the summary, new +
\* changed + unchanged equals the found total, the saved total does not
\* exceed it, and the saved total equals the found total without
\* skip_unchanged and new + changed with it, the skipped-unchanged counter
\* then being the unchanged total.
C34_CountersConsistent ==
    /\ BetweenPages => CountersConsistent
    /\ rPc = "returned" =>
          /\ rSummary[1].new + rSummary[1].changed + rSummary[1].unchanged
                = rSummary[1].total_found
          /\ rSummary[1].total_saved <= rSummary[1].total_found

\* a run with skip_unchanged that met new, changed and unchanged listings
\* on two pages has returned
C34_Witness ==
    /\ rPc = "returned"
    /\ rCfg.skip_unchanged
    /\ rCount.pages_viewed >= 2
    /\ rCount.unchanged >= 1
    /\ rCount.changed >= 1
    /\ rCount.new >= 1
    /\ rCount.total_saved = rCount.new + rCount.changed
    /\ rCount.total_saved < rCount.total_found

---------------------------------------------------------------------------
(* Change classifier and persistence layer on the same listing *)

\* the classified listing was found in the store, classified unchanged and
\* then upserted, with no write in between
UnchangedThenUpserted ==
    /\ clsPc = "persisted"
    /\ clsDb
    /\ HadRow
    /\ LastItem = ClsListing
    /\ ClsOut.status = STATUS_UNCHANGED

\* the upsert appended no Change Entry and left updated_at alone
UpsertSawNoChange ==
    /\ Appended = << >>
    /\ RowNow["updated_at"] = RowBefore["updated_at"]

\* the observation differs from the stored row only where the classifier
\* looks exactly: its date is missing or the stored one, and every tracked
\* field outside the comparison subset is missing or holds the stored value
AgreesOutsideComparison ==
    /\ Missing(ClsListing["date"]) \/ ClsListing["date"] = RowBefore["date"]
    /\ \A f \in Range(clsFields) \ (ComparisonSubset \cup {"id"}) :
          Missing(ClsListing[f]) \/ Strip(ClsListing[f]) = RowBefore[f]

---------------------------------------------------------------------------
(* Crawl run: what the duplicate check drops *)

\* the identifiers the duplicate check of this step drops because an earlier
\* page registered them in seen_ids
DroppedAsSeen ==
    {rOffered'[k] : k \in Len(rOffered) + 1 .. Len(rOffered')} \cap rSeen

\* C36: a listing is dropped as a duplicate only if a listing with the same
\* identifier was handed to classification earlier in the run, whatever the
\* limit and skip_unchanged: no identifier is dropped because it was
\* registered in seen_ids and then cut off by the limit.
C36_DroppedOnlyIfClassified ==
    [][\A id \in DroppedAsSeen :
          \E j \in 1..Len(rClassified) : rClassified[j] = id]_vars

---------------------------------------------------------------------------
(* Detail enrichment: the admission permits *)

\* the permits the semaphore was created with
PermitsTotal == Max(1, Min(eRate[2], eWorkers))

\* the free permits and the permits held by running fetches add up
PermitsConserved ==
    eSemaphore.limited =>
        /\ eSemaphore.value >= 0
        /\ eSemaphore.value + Cardinality(InFlight) = PermitsTotal

\* C37: the admission permits are conserved: a worker holds a permit exactly
\* while its detail fetch runs and gives it back when the fetch returns and
\* when it raises; an item without detail link never holds one; and under
\* fair scheduling every dispatched item completes and the batch ends with
\* every permit free.
C37_PermitsConserved ==
    /\ [](PermitsConserved
          /\ \A i \in InFlight : ~IsNoneOrEmpty(eInput[i].link))
    /\ [][\A i \in Tasks :
            /\ (eTask[i] = "fetching" /\ eTask'[i] = "done"
                   /\ eSemaphore.limited) =>
                  eSemaphore'.value = eSemaphore.value + 1
            /\ (IsNoneOrEmpty(eInput[i].link) /\ eTask'[i] # eTask[i]) =>
                  eSemaphore' = eSemaphore]_vars
    /\ <>[](/\ EnrichEnded
            /\ \A i \in Tasks : eTask[i] = "done" /\ eFuture[i].state # "pending"
            /\ eSemaphore.limited => eSemaphore.value = PermitsTotal)

\* one permit, three items with a link: a fetch raised and a later item
\* took the permit all the same; the batch ended with the permit free
C37_Witness ==
    /\ EnrichEnded
    /\ eRate = IntV(1)
    /\ eSemaphore.value = 1
    /\ Len(eTask) = 3
    /\ \A i \in Tasks : ~IsNoneOrEmpty(eInput[i].link)
    /\ eFuture[1] = Raised
    /\ eFuture[2].state = "returned"
    /\ eFuture[3].state = "returned"
    /\ eOrder[1] = 1

---------------------------------------------------------------------------
(* Persistence layer: a batch and its records one by one *)

\* upsert_listing of listings[k], listings[k+1], ... in list order, each on
\* the store the one before left
RECURSIVE OneByOne(_, _, _, _, _)
OneByOne(table, log, listings, k, timestamp) ==
    IF k > Len(listings) THEN [rows |-> table, changes |-> log]
    ELSE LET r == upsert_listing(table, log, listings[k], DB_FIELDNAMES,
                                 timestamp)
         IN  OneByOne(r.rows, r.changes, listings, k + 1, timestamp)

\* C38 (batch upsert equals sequential upserts): a call of upsert_many that
\* returned leaves rows and Change Entries as upsert_listing of its records
\* one by one, in list order and with the same timestamp, leaves them, also
\* when the list holds an identifier more than once.
C38_BatchEqualsSequential ==
    (writes >= 1 /\ lastCall.failed_at = 0) =>
        LET one_by_one == OneByOne(preRows, SubSeq(changes, 1, preLen),
                                   lastCall.listings, 1, lastCall.timestamp)
        IN  /\ rows = one_by_one.rows
            /\ changes = one_by_one.changes

\* a second batch holds the stored listing twice, first with a new price and
\* then with the old one: two Change Entries, one against the stored row and
\* one against the row the first record wrote
C38_Witness ==
    /\ writes = 2
    /\ lastCall.failed_at = 0
    /\ Len(lastCall.listings) = 2
    /\ lastCall.listings[1] = [base_listing EXCEPT !["price"] = IntV(15500)]
    /\ lastCall.listings[2] = base_listing
    /\ preRows # {}
    /\ Len(changes) = preLen + 2
    /\ \A r \in rows : r["id"] = StrV("abc") => r["price"] = IntV(15000)

---------------------------------------------------------------------------
(* Crawl run: the remaining limit at the cap *)

\* the step that computes remaining_limit and caps the page
PageCapped ==
    rPc = "fetch" /\ rCount'.pages_viewed = rCount.pages_viewed + 1

\* C39: where a page is capped to the remaining save limit, the remaining
\* limit is at least 1. The stop "limit already reached" before a page is
\* processed never happens: a run stops for the limit only in the persist
\* step that met it, and while a page is due the saved total is below the
\* limit.
C39_RemainingLimitPositive ==
    /\ [](rRemaining # Null => rRemaining[2] >= 1)
    /\ [](rCfg.limit # Null =>
             /\ rCfg.limit[2] >= 1
             /\ rPc = "fetch" => rCount.total_saved < rCfg.limit[2])
    /\ [][PageCapped => rPc' = "classify" /\ rStop' = rStop]_vars
    /\ [][(rStop' = "limit_reached" /\ rStop # "limit_reached") =>
             /\ rPc = "persist"
             /\ rCount'.total_saved >= rCfg.limit[2]]_vars

\* limit 2, one listing saved from the first page: the second page, with two
\* fresh listings, is capped to a remaining limit of 1
C39_Witness ==
    /\ rCfg.limit = IntV(2)
    /\ rPage = 2
    /\ rPc = "classify"
    /\ rCount.total_saved = 1
    /\ rRemaining = IntV(1)
    /\ Len(rListings) = 2
    /\ AllFresh(rListings)
    /\ Len(rEligible) = 1

---------------------------------------------------------------------------
(* Persistence layer: the order of a row's timestamps *)

\* the second a timestamp column holds
Second(time_text) == time_text[2]

\* C40 (timestamp ordering of a row): with write timestamps that never
\* decrease from one upsert to the next, every row of every store state has
\* created_at <= updated_at <= last_seen, and the last_seen of a listing
\* never decreases.
C40_TimestampOrdering ==
    /\ [](\A r \in rows :
             /\ Second(r["created_at"]) <= Second(r["updated_at"])
             /\ Second(r["updated_at"]) <= Second(r["last_seen"]))
    /\ [][\A old \in rows : \A new \in rows' :
             old["id"] = new["id"] =>
                Second(old["last_seen"]) <= Second(new["last_seen"])]_vars

\* a listing created at second 1 and seen again, unchanged, at second 2 and
\* once more at second 2
C40_Witness ==
    /\ writes = 3
    /\ prevCall.timestamp = 2
    /\ lastCall.timestamp = 2
    /\ \E r \in rows :
          /\ r["id"] = StoredId(LastItem)
          /\ r["created_at"] = TimeV(1)
          /\ r["updated_at"] = TimeV(1)
          /\ r["last_seen"] = TimeV(2)

=============================================================================
